---- MODULE Spec2Model ----
(***************************************************************************)
(* Model of the cinemaic watchlist tracker: the synchronized entity cache  *)
(* of src/js/store.js (a local mirror of per-user Firestore collections    *)
(* kept live by onSnapshot listeners) and the code that reads and writes   *)
(* it.                                                                     *)
(*                                                                         *)
(* Encoding of JavaScript values: null is NULL (-1) in numeric fields,     *)
(* an absent (undefined) numeric field is UNDEF (-2), the signed-out uid   *)
(* is NoUid, an unset listener handle is NoSub.                            *)
(***************************************************************************)
EXTENDS Integers, Sequences, FiniteSets, TLC

\* ---------------------------------------------------------------- bounds
\* writes issued to the remote store and not yet accepted or rejected
MaxInflight == 1
\* writes issued over one run
MaxWrites == 2
\* records handed to the profile builder
MaxItems == 2
\* pieces of text the generator puts before, and after, its JSON payload
MaxProse == 1

\* ------------------------------------------------------------ value sets
NULL == -1
UNDEF == -2
NoUid == "null"
NoSub == "none"
Uids == {"A", "B"}
Types == {"movie", "tv"}
Kinds == Types \cup {"profile"}
\* catalog ids of the items the user handles
Ids == {1, 2}
\* values Date.now() returns
Clock == {1}
\* taste notes a user types; NoDoc: the profile document does not exist
NoDoc == "<no document>"
NoteTexts == {"noir"}

UserFields == {"watched", "watchedAt", "rating", "notes", "addedAt"}
Fields == {"tmdbId", "tmdbRating"} \cup UserFields

\* ------------------------------------------------------------- variables
VARIABLES
    currentUid,     \* store.js: currentUid
    cache,          \* store.js: cache = { movie: [], tv: [] }
    profileCache,   \* store.js: profileCache.tasteNotes
    unsubscribers,  \* store.js: unsubscribers = { movie, tv, profile }
    listeners,      \* Firestore: live onSnapshot listeners per (uid, kind)
    remote,         \* Firestore: users/<uid>/<type> collections
    remoteNotes,    \* Firestore: users/<uid>/profile/taste
    inflight,       \* Firestore: writes issued and not yet settled
    writes,         \* number of writes issued so far
    last,           \* the last operation's result
    backfill,       \* app.js: the position of backfillMissingData and its locals
    items,          \* ai.js: the items argument of buildTasteProfile
    profile,        \* ai.js: the profile buildTasteProfile returned
    raw,            \* functions: the text of the model's reply
    response,       \* functions: what askAI returned or threw
    server,         \* functions: the callable request being served and its outcome
    catalog,        \* tmdb.js: a catalog reply and what the client made of it
    app,            \* app.js: state.mediaType, state.aiResults and the explore view
    request,        \* app.js: the submitAIPrompt call under way and its locals
    search          \* app.js: searchDebounce, the search modal and its searches

storeVars == <<currentUid, cache, profileCache, unsubscribers, listeners, remote,
               remoteNotes, inflight, writes, last>>
profileVars == <<items, profile>>
askVars == <<raw, response, server, catalog>>
uiVars == <<app, request, search>>
vars == <<storeVars, backfill, profileVars, askVars, uiVars>>

\* no error, no value
Nothing == [kind |-> "none", code |-> "", message |-> ""]

\* no callable request has arrived yet
NoCall == [pc |-> "idle", fn |-> "tmdb", auth |-> "null",
           data |-> [kind |-> "undefined", text |-> << >>], key |-> FALSE,
           called |-> FALSE, raised |-> Nothing, failed |-> FALSE, result |-> Nothing]

\* no catalog reply has been read yet
NoCatalog == [pc |-> "idle", type |-> "movie", read |-> << >>, out |-> << >>]

ServerIdle == server = NoCall /\ catalog = NoCatalog

\* the values of the parts of the program a specification leaves out
BackfillIdle == [pc |-> "idle"]
NoProfile == [built |-> FALSE]
NoResponse == [thrown |-> "", returned |-> FALSE]
NoApp == [mediaType |-> "movie"]
NoRequest == [pc |-> "none"]
NoSearch == [open |-> FALSE]
UiIdle == app = NoApp /\ request = NoRequest /\ search = NoSearch

\* ------------------------------------------------------- pure operators
\* String(tmdbId): the document key
String(n) == ToString(n)

\* the id a document key was made of (the store orders documents by key)
KeyId(k) == CHOOSE n \in Ids : String(n) = k

\* cache[type].find(i => i.tmdbId === tmdbId) || null
NoItem == [tmdbId |-> NULL]
getItem(c, type, tmdbId) ==
    IF \E i \in 1..Len(c[type]) : c[type][i].tmdbId = tmdbId
    THEN c[type][CHOOSE i \in 1..Len(c[type]) :
                    /\ c[type][i].tmdbId = tmdbId
                    /\ \A j \in 1..(i - 1) : c[type][j].tmdbId # tmdbId]
    ELSE NoItem

getAll(c, type) == c[type]

\* ------------------------------------------------- the remote store
\* A collection is the sequence of its documents [key, data] in document-key
\* order, which is the order of snap.docs.
HasDoc(coll, key) == \E i \in 1..Len(coll) : coll[i].key = key

\* mutant: the create does not replace the document with that key (addDoc)
setDocAppend(coll, key, data) == Append(coll, [key |-> key, data |-> data])

\* setDoc(ref, data): create the document or replace the one with that key
setDoc(coll, key, data) ==
    SelectSeq(coll, LAMBDA d : KeyId(d.key) < KeyId(key))
        \o << [key |-> key, data |-> data] >>
        \o SelectSeq(coll, LAMBDA d : KeyId(d.key) > KeyId(key))

\* deleteDoc(ref)
deleteDoc(coll, key) == SelectSeq(coll, LAMBDA d : d.key # key)

\* updateDoc(ref, updates): the named fields are overwritten, the others kept
Merge(data, updates) ==
    [f \in DOMAIN data \cup DOMAIN updates |->
        IF f \in DOMAIN updates THEN updates[f] ELSE data[f]]

updateDoc(coll, key, updates) ==
    [i \in 1..Len(coll) |->
        IF coll[i].key = key
        THEN [key |-> key, data |-> Merge(coll[i].data, updates)]
        ELSE coll[i]]

\* ------------------------------------------------------------ store.js
EmptyCache == [t \in Types |-> << >>]
NoListeners == [u \in Uids |-> [k \in Kinds |-> 0]]
NoHandles == [k \in Kinds |-> NoSub]

\* ref(type, tmdbId): doc(db, 'users', currentUid, type, String(tmdbId))
ref(uid, type, tmdbId) == [uid |-> uid, type |-> type, key |-> String(tmdbId)]

\* mutant: the handles are dropped without being called
UnsubscribeNothing(ls, handles) == ls

\* unsubscribers.movie?.(); unsubscribers.tv?.(); unsubscribers.profile?.():
\* every listener a handle refers to is closed
Unsubscribe(ls, handles) ==
    [u \in Uids |-> [k \in Kinds |->
        IF handles[k] = u /\ ls[u][k] > 0 THEN ls[u][k] - 1 ELSE ls[u][k]]]

\* onSnapshot(...) for 'movie', 'tv' and the profile document of uid
Subscribe(ls, uid) ==
    [u \in Uids |-> [k \in Kinds |-> IF u = uid THEN ls[u][k] + 1 ELSE ls[u][k]]]

\* mutant: signing out leaves the collections in place
setUserCacheKept(uid, c) == c

\* the local collections setUser(uid) leaves behind
setUserCache(uid, c) == IF uid = NoUid THEN EmptyCache ELSE c

\* the local taste notes setUser(uid) leaves behind
setUserProfile(uid, p) == IF uid = NoUid THEN "" ELSE p

\* mutant: the snapshot callback leaves the local collection as it is
onSnapshotKeep(old, docs) == old

\* mutant: the snapshot is appended to the collection instead of replacing it
onSnapshotAppend(old, docs) == old \o [i \in 1..Len(docs) |-> docs[i].data]

\* snap.docs.map(d => d.data()) assigned to cache[type]
onSnapshotCache(old, docs) == [i \in 1..Len(docs) |-> docs[i].data]

\* window.__cinemaic_onStoreUpdate?.() after the assignment: the cache contents
\* each invocation of the registered callback reads (one invocation, which
\* reads the new contents)
onStoreUpdate(old, new) == << new >>

\* snap.exists() ? (snap.data().tasteNotes || '') : ''
onSnapshotProfile(doc) == IF doc = NoDoc THEN "" ELSE doc

\* mutant: the spread comes last, { addedAt: ..., ...item }: the candidate's
\* own fields win
addItemDataItemWins(item, now) ==
    [item EXCEPT !.addedAt = IF item.addedAt = UNDEF THEN now ELSE item.addedAt,
                 !.rating = IF item.rating = UNDEF THEN NULL ELSE item.rating]

\* { ...item, addedAt: Date.now(), watched: false, rating: null, notes: '' }
addItemData(item, now) ==
    [item EXCEPT !.addedAt = now, !.watched = FALSE, !.rating = NULL, !.notes = ""]

\* mutant: addItem without its duplicate check
addItemRefusedNoCheck(uid, c, type, item) == uid = NoUid

\* the duplicate check of addItem
addItemRefused(uid, c, type, item) ==
    \/ uid = NoUid
    \/ getItem(c, type, item.tmdbId) # NoItem

\* what the last operation returned ("void": undefined, "pending": it awaits
\* its write, "throws": its await threw) and how often it invoked the
\* invalidation callback
Result(ret, cb) == [ret |-> ret, cb |-> cb]

Write(op, r, data, caller) ==
    [op |-> op, uid |-> r.uid, type |-> r.type, key |-> r.key, data |-> data,
     caller |-> caller]

CanIssue == Len(inflight) < MaxInflight /\ writes < MaxWrites

\* ------------------------------------------------------------- inputs
\* a catalog item as normalizeMovie/normalizeTV return it (no user-owned
\* fields; an absent watched flag reads as FALSE)
CatalogItem(id) ==
    [tmdbId |-> id, tmdbRating |-> NULL, watched |-> FALSE, watchedAt |-> UNDEF,
     rating |-> UNDEF, notes |-> "", addedAt |-> UNDEF]

\* a candidate that carries user-owned fields (a record of another list)
StoredItem(id) ==
    [tmdbId |-> id, tmdbRating |-> 70, watched |-> TRUE, watchedAt |-> 0,
     rating |-> 5, notes |-> "old", addedAt |-> 0]

Candidates == {CatalogItem(1), StoredItem(2)}

\* (rating, notes) arguments of markWatched and updateRating
MarkArgs == { <<4, "good">> }
RateArgs == { <<2, "meh">> }

\* updates arguments of patchItem
PatchArgs == { [tmdbRating |-> 80], [watched |-> TRUE, rating |-> 5] }

\* ------------------------------------------------------------- actions
Init ==
    /\ currentUid = NoUid
    /\ cache = EmptyCache
    /\ profileCache = ""
    /\ unsubscribers = NoHandles
    /\ listeners = NoListeners
    /\ remote = [u \in Uids |-> [t \in Types |-> << >>]]
    /\ remoteNotes = [u \in Uids |-> NoDoc]
    /\ inflight = << >>
    /\ writes = 0
    /\ last = Result("void", 0)
    /\ backfill = BackfillIdle
    /\ items = << >> /\ profile = NoProfile
    /\ raw = << >> /\ response = NoResponse /\ ServerIdle
    /\ UiIdle

\* setUser(uid), uid null (NoUid) or an identity
setUser(uid) ==
    /\ listeners' = IF uid = NoUid
                    THEN Unsubscribe(listeners, unsubscribers)
                    ELSE Subscribe(Unsubscribe(listeners, unsubscribers), uid)
    /\ unsubscribers' = [k \in Kinds |-> IF uid = NoUid THEN NoSub ELSE uid]
    /\ currentUid' = uid
    /\ cache' = setUserCache(uid, cache)
    /\ profileCache' = setUserProfile(uid, profileCache)
    /\ last' = Result("void", 0)
    /\ UNCHANGED <<remote, remoteNotes, inflight, writes>>

\* the onSnapshot callback of a live collection listener of uid u:
\* cache[type] = snap.docs.map(d => d.data()); __cinemaic_onStoreUpdate?.()
SnapshotDelivered(u, type) ==
    /\ listeners[u][type] > 0
    /\ cache' = [cache EXCEPT ![type] = onSnapshotCache(cache[type], remote[u][type])]
    /\ LET seen == onStoreUpdate(cache, cache') IN
         last' = Result(IF \A i \in 1..Len(seen) : seen[i] = cache'
                        THEN "rendered" ELSE "rendered stale", Len(seen))
    /\ UNCHANGED <<currentUid, profileCache, unsubscribers, listeners, remote,
                   remoteNotes, inflight, writes>>

\* the onSnapshot callback of a live profile listener of uid u
ProfileDelivered(u) ==
    /\ listeners[u]["profile"] > 0
    /\ profileCache' = onSnapshotProfile(remoteNotes[u])
    /\ last' = Result("void", 0)
    /\ UNCHANGED <<currentUid, cache, unsubscribers, listeners, remote,
                   remoteNotes, inflight, writes>>

\* a mutation that returns at its guard: nothing is issued
Returned(ret) ==
    /\ last' = Result(ret, 0)
    /\ UNCHANGED <<currentUid, cache, profileCache, unsubscribers, listeners,
                   remote, remoteNotes, inflight, writes>>

\* a mutation that issues one write and awaits it
Issued(w) ==
    /\ CanIssue
    /\ inflight' = Append(inflight, w)
    /\ writes' = writes + 1
    /\ last' = Result("pending", 0)
    /\ UNCHANGED <<currentUid, cache, profileCache, unsubscribers, listeners,
                   remote, remoteNotes>>

\* mutant: addItem also pushes the new record into the local collection
addItemOptimistic(type, item, now) ==
    IF addItemRefused(currentUid, cache, type, item)
    THEN Returned("false")
    ELSE /\ CanIssue
         /\ inflight' = Append(inflight,
                Write("setDoc", ref(currentUid, type, item.tmdbId),
                      addItemData(item, now), "addItem"))
         /\ writes' = writes + 1
         /\ cache' = [cache EXCEPT ![type] = Append(@, addItemData(item, now))]
         /\ last' = Result("pending", 0)
         /\ UNCHANGED <<currentUid, profileCache, unsubscribers, listeners,
                        remote, remoteNotes>>

\* addItem(type, item), up to its await
addItem(type, item, now) ==
    IF addItemRefused(currentUid, cache, type, item)
    THEN Returned("false")
    ELSE Issued(Write("setDoc", ref(currentUid, type, item.tmdbId),
                      addItemData(item, now), "addItem"))

\* mutant: removeItem without its signed-out guard
removeItemNoGuard(type, tmdbId) ==
    Issued(Write("deleteDoc", ref(currentUid, type, tmdbId), NoItem, "removeItem"))

\* removeItem(type, tmdbId), up to its await
removeItem(type, tmdbId) ==
    IF currentUid = NoUid
    THEN Returned("void")
    ELSE Issued(Write("deleteDoc", ref(currentUid, type, tmdbId), NoItem, "removeItem"))

\* mutant: markWatched writes with setDoc, replacing the whole document
markWatchedReplacing(type, tmdbId, rating, notes, now) ==
    IF currentUid = NoUid
    THEN Returned("void")
    ELSE Issued(Write("setDoc", ref(currentUid, type, tmdbId),
                      [watched |-> TRUE, watchedAt |-> now, rating |-> rating,
                       notes |-> notes], "markWatched"))

\* markWatched(type, tmdbId, rating, notes), up to its await
markWatched(type, tmdbId, rating, notes, now) ==
    IF currentUid = NoUid
    THEN Returned("void")
    ELSE Issued(Write("updateDoc", ref(currentUid, type, tmdbId),
                      [watched |-> TRUE, watchedAt |-> now, rating |-> rating,
                       notes |-> notes], "markWatched"))

\* mutant: unmarkWatched clears the flag and keeps the viewing date
unmarkWatchedKeepsDate(type, tmdbId) ==
    IF currentUid = NoUid
    THEN Returned("void")
    ELSE Issued(Write("updateDoc", ref(currentUid, type, tmdbId),
                      [watched |-> FALSE, rating |-> NULL, notes |-> ""],
                      "unmarkWatched"))

\* unmarkWatched(type, tmdbId), up to its await
unmarkWatched(type, tmdbId) ==
    IF currentUid = NoUid
    THEN Returned("void")
    ELSE Issued(Write("updateDoc", ref(currentUid, type, tmdbId),
                      [watched |-> FALSE, watchedAt |-> NULL, rating |-> NULL,
                       notes |-> ""], "unmarkWatched"))

\* updateRating(type, tmdbId, rating, notes), up to its await
updateRating(type, tmdbId, rating, notes) ==
    IF currentUid = NoUid
    THEN Returned("void")
    ELSE Issued(Write("updateDoc", ref(currentUid, type, tmdbId),
                      [rating |-> rating, notes |-> notes], "updateRating"))

\* mutant: patchItem writes with setDoc, creating the document it names
patchItemCreating(type, tmdbId, updates) ==
    IF currentUid = NoUid
    THEN Returned("void")
    ELSE Issued(Write("setDoc", ref(currentUid, type, tmdbId), updates, "patchItem"))

\* patchItem(type, tmdbId, updates), up to its await
patchItem(type, tmdbId, updates) ==
    IF currentUid = NoUid
    THEN Returned("void")
    ELSE Issued(Write("updateDoc", ref(currentUid, type, tmdbId), updates, "patchItem"))

\* saveTasteNotes(notes), up to its await
saveTasteNotes(notes) ==
    IF currentUid = NoUid
    THEN Returned("void")
    ELSE Issued(Write("setDoc", [uid |-> currentUid, type |-> "profile", key |-> "taste"],
                      [tasteNotes |-> notes], "saveTasteNotes"))

\* the remote collection after write w was applied
Applied(coll, w) ==
    CASE w.op = "setDoc"    -> setDoc(coll, w.key, w.data)
      [] w.op = "deleteDoc" -> deleteDoc(coll, w.key)
      [] w.op = "updateDoc" -> updateDoc(coll, w.key, w.data)

\* the value the awaiting mutation returns once its write was accepted
Completion(caller) == IF caller = "addItem" THEN "true" ELSE "void"

\* The remote store accepts the oldest write in flight; the mutation that
\* awaits it resumes. updateDoc is accepted only for an existing document.
WriteAccepted ==
    /\ inflight # << >>
    /\ LET w == Head(inflight) IN
        /\ w.op = "updateDoc" => HasDoc(remote[w.uid][w.type], w.key)
        /\ IF w.type = "profile"
           THEN /\ remoteNotes' = [remoteNotes EXCEPT ![w.uid] = w.data.tasteNotes]
                \* saveTasteNotes after its await: profileCache.tasteNotes = notes
                /\ profileCache' = w.data.tasteNotes
                /\ UNCHANGED remote
           ELSE /\ remote' = [remote EXCEPT ![w.uid][w.type] = Applied(@, w)]
                /\ UNCHANGED <<remoteNotes, profileCache>>
        /\ last' = Result(Completion(w.caller), 0)
    /\ inflight' = Tail(inflight)
    /\ UNCHANGED <<currentUid, cache, unsubscribers, listeners, writes>>

\* mutant: the rejection is swallowed and the write is tried again
WriteRejectedRetried ==
    /\ inflight # << >>
    /\ last' = Result(Completion(Head(inflight).caller), 0)
    /\ inflight' = Append(Tail(inflight), Head(inflight))
    /\ UNCHANGED <<currentUid, cache, profileCache, unsubscribers, listeners,
                   remote, remoteNotes, writes>>

\* The remote store rejects the oldest write in flight (the store is
\* unavailable, or updateDoc names a missing document): the await throws.
WriteRejected ==
    /\ inflight # << >>
    /\ last' = Result("throws", 0)
    /\ inflight' = Tail(inflight)
    /\ UNCHANGED <<currentUid, cache, profileCache, unsubscribers, listeners,
                   remote, remoteNotes, writes>>

\* a step of the store alone: no backfill, no profile build, no AI reply
StoreOnly == UNCHANGED <<backfill, profileVars, askVars, uiVars>>

Next ==
    \/ StoreOnly /\ \E uid \in Uids \cup {NoUid} : setUser(uid)
    \/ StoreOnly /\ \E u \in Uids, type \in Types : SnapshotDelivered(u, type)
    \/ StoreOnly /\ \E u \in Uids : ProfileDelivered(u)
    \/ StoreOnly /\ \E type \in Types, item \in Candidates, now \in Clock :
                        addItem(type, item, now)
    \/ StoreOnly /\ \E type \in Types, id \in Ids : removeItem(type, id)
    \/ StoreOnly /\ \E type \in Types, id \in Ids, a \in MarkArgs, now \in Clock :
                        markWatched(type, id, a[1], a[2], now)
    \/ StoreOnly /\ \E type \in Types, id \in Ids : unmarkWatched(type, id)
    \/ StoreOnly /\ \E type \in Types, id \in Ids, a \in RateArgs :
                        updateRating(type, id, a[1], a[2])
    \/ StoreOnly /\ \E type \in Types, id \in Ids, u \in PatchArgs :
                        patchItem(type, id, u)
    \/ StoreOnly /\ \E notes \in NoteTexts : saveTasteNotes(notes)
    \/ StoreOnly /\ WriteAccepted
    \/ StoreOnly /\ WriteRejected

Spec == Init /\ [][Next]_vars

\* ------------------------------------------------- adds, removes, snapshots
\* The store under adds and removes only, with the listeners' guarantee that
\* a live listener is eventually handed the current state of its collection.
NextLive ==
    \/ StoreOnly /\ \E uid \in Uids \cup {NoUid} : setUser(uid)
    \/ StoreOnly /\ \E u \in Uids, type \in Types : SnapshotDelivered(u, type)
    \/ StoreOnly /\ \E type \in Types, item \in Candidates, now \in Clock :
                        addItem(type, item, now)
    \/ StoreOnly /\ \E type \in Types, id \in Ids : removeItem(type, id)
    \/ StoreOnly /\ WriteAccepted
    \/ StoreOnly /\ WriteRejected

FairDelivery ==
    \A u \in Uids, type \in Types :
       WF_vars(StoreOnly /\ SnapshotDelivered(u, type))

SpecLive == Init /\ [][NextLive]_vars /\ FairDelivery

\* ------------------------------------------------- backfillMissingData
DetailFields == {"tmdbRating", "genres", "genreIds", "releaseDate"}

\* what the catalog answers for /movie/<id> or /tv/<id>: vote_average (in
\* tenths, 0 when there are no votes), genres, release_date or
\* first_air_date (UNDEF when absent), and fields of its own that happen to
\* be named like user-owned ones
CatalogData ==
    [vote_average : {0, 75},
     genres : { << >>, << [id |-> 18, name |-> "Drama"] >> },
     release_date : {UNDEF, 1999},
     rating : {9}, watched : {TRUE}, notes : {"tagline"}, watchedAt : {7}]

\* normalizeMovie(m, true) / normalizeTV(t, true), the fields backfill reads
normalize(id, m) ==
    [tmdbId |-> id,
     releaseDate |-> IF m.release_date = UNDEF THEN NULL ELSE m.release_date,
     tmdbRating |-> IF m.vote_average = 0 THEN NULL ELSE m.vote_average,
     genres |-> [k \in 1..Len(m.genres) |-> m.genres[k].name],
     genreIds |-> [k \in 1..Len(m.genres) |-> m.genres[k].id]]

\* a record stored before descriptive fields were kept; the user has
\* watched and rated it
BareItem(id) ==
    [tmdbId |-> id, tmdbRating |-> NULL, genres |-> << >>, genreIds |-> << >>,
     releaseDate |-> UNDEF, watched |-> TRUE, watchedAt |-> 0, rating |-> 5,
     notes |-> "old", addedAt |-> 0]

\* a record that lacks only its genre codes
PartialItem(id) ==
    [tmdbId |-> id, tmdbRating |-> 70, genres |-> <<"Comedy">>, genreIds |-> << >>,
     releaseDate |-> NULL, watched |-> FALSE, watchedAt |-> UNDEF, rating |-> NULL,
     notes |-> "", addedAt |-> 0]

\* a record that lacks nothing
FullItem(id) ==
    [tmdbId |-> id, tmdbRating |-> 70, genres |-> <<"Comedy">>, genreIds |-> <<35>>,
     releaseDate |-> 1998, watched |-> FALSE, watchedAt |-> UNDEF, rating |-> NULL,
     notes |-> "", addedAt |-> 0]

Doc(data) == [key |-> String(data.tmdbId), data |-> data]

\* the collections of the user who signs in
StoredCollections ==
    [movie |-> << Doc(BareItem(1)), Doc(FullItem(2)) >>,
     tv |-> << Doc(PartialItem(1)) >>]

\* i.tmdbRating == null || !i.genres?.length || i.releaseDate === undefined
\*    || !i.genreIds?.length
lacksDetail(i) ==
    \/ i.tmdbRating \in {NULL, UNDEF}
    \/ i.genres = << >>
    \/ i.releaseDate = UNDEF
    \/ i.genreIds = << >>

\* getAll(type).filter(...), as the ids of the selected records
needsBackfill(c, type) ==
    LET selected == SelectSeq(getAll(c, type), lacksDetail) IN
       [k \in 1..Len(selected) |-> selected[k].tmdbId]

\* one field of the updates object, when its condition holds
field(cond, name, value) ==
    IF cond THEN [f \in {name} |-> value] ELSE [f \in {} |-> value]

\* mutant: the updates also reset the rating
updatesResettingRating(details) ==
    field(details.tmdbRating \notin {NULL, UNDEF}, "tmdbRating", details.tmdbRating)
    @@ field(TRUE, "rating", NULL)

\* the updates object built from the details
buildUpdates(details) ==
    field(details.tmdbRating \notin {NULL, UNDEF}, "tmdbRating", details.tmdbRating)
    @@ field(details.genres # << >>, "genres", details.genres)
    @@ field(details.genreIds # << >>, "genreIds", details.genreIds)
    @@ field(details.releaseDate # UNDEF, "releaseDate", details.releaseDate)

\* where the run stands once the records in queue (of type) are left: at the
\* fetch of the first one, at the selection for the next type, or at its end
RECURSIVE Advance(_, _, _)
Advance(c, type, queue) ==
    IF queue # << >> THEN [pc |-> "fetching", type |-> type, queue |-> queue]
    ELSE IF type = "movie" THEN Advance(c, "tv", needsBackfill(c, "tv"))
    ELSE [pc |-> "done"]

\* what the run has done so far: the (type, id) pairs whose detail fetch has
\* settled, in that order, and those whose fetch or patch failed
NothingDone == [fetched |-> << >>, failed |-> {}]
Done(b) == [fetched |-> b.fetched, failed |-> b.failed]
Settling(b, ok) ==
    LET rec == <<b.type, Head(b.queue)>> IN
       [fetched |-> Append(b.fetched, rec),
        failed |-> IF ok THEN b.failed ELSE b.failed \cup {rec}]

\* the page right after setAuthState(user): setUser(user.uid) has subscribed
\* the listeners, no snapshot has arrived, the backfill timer is pending
InitBackfill ==
    /\ currentUid = "A"
    /\ cache = EmptyCache
    /\ profileCache = ""
    /\ unsubscribers = [k \in Kinds |-> "A"]
    /\ listeners = Subscribe(NoListeners, "A")
    /\ remote = [u \in Uids |-> IF u = "A" THEN StoredCollections
                                  ELSE [t \in Types |-> << >>]]
    /\ remoteNotes = [u \in Uids |-> NoDoc]
    /\ inflight = << >>
    /\ writes = 0
    /\ last = Result("void", 0)
    /\ backfill = [pc |-> "scheduled"] @@ NothingDone
    /\ items = << >> /\ profile = NoProfile
    /\ raw = << >> /\ response = NoResponse /\ ServerIdle
    /\ UiIdle

\* the timer fires: backfillMissingData runs up to its first await
BackfillStarted ==
    /\ backfill.pc = "scheduled"
    /\ backfill' = Advance(cache, "movie", needsBackfill(cache, "movie")) @@ Done(backfill)
    /\ UNCHANGED <<storeVars, profileVars, askVars, uiVars>>

\* getMovieDetails / getTVDetails resolved with the normalized answer m of
\* the catalog: the updates are built and, if there are any, patched
DetailsFetched(m) ==
    /\ backfill.pc = "fetching"
    /\ LET id == Head(backfill.queue) IN
       LET updates == buildUpdates(normalize(id, m)) IN
          IF DOMAIN updates # {}
          THEN /\ patchItem(backfill.type, id, updates)
               /\ backfill' = IF currentUid = NoUid
                               THEN Advance(cache, backfill.type, Tail(backfill.queue))
                                    @@ Settling(backfill, TRUE)
                               ELSE [pc |-> "patching"] @@ Settling(backfill, TRUE)
                                    @@ backfill
          ELSE /\ backfill' = Advance(cache, backfill.type, Tail(backfill.queue))
                               @@ Settling(backfill, TRUE)
               /\ UNCHANGED storeVars
    /\ UNCHANGED <<profileVars, askVars, uiVars>>

\* getMovieDetails / getTVDetails rejected: the catch block swallows it
DetailsFailed ==
    /\ backfill.pc = "fetching"
    /\ backfill' = Advance(cache, backfill.type, Tail(backfill.queue))
                    @@ Settling(backfill, FALSE)
    /\ UNCHANGED <<storeVars, profileVars, askVars, uiVars>>

\* mutant: a rejected patch ends the run
ResumedStopping(w, accepted) ==
    IF w.caller = "patchItem" /\ backfill.pc = "patching"
    THEN (IF accepted THEN Advance(cache, backfill.type, Tail(backfill.queue))
          ELSE [pc |-> "done"])
         @@ [fetched |-> backfill.fetched,
             failed |-> IF accepted THEN backfill.failed
                        ELSE backfill.failed \cup {<<backfill.type, Head(backfill.queue)>>}]
    ELSE backfill

\* the run after the oldest write in flight was settled: its own patch
\* resumes it (an accepted one after the await, a rejected one in the catch
\* block), a write of the user leaves it where it is
Resumed(w, accepted) ==
    IF w.caller = "patchItem" /\ backfill.pc = "patching"
    THEN Advance(cache, backfill.type, Tail(backfill.queue))
         @@ [fetched |-> backfill.fetched,
             failed |-> IF accepted THEN backfill.failed
                        ELSE backfill.failed \cup {<<backfill.type, Head(backfill.queue)>>}]
    ELSE backfill

\* a step of the user or of the remote store while the run is suspended
RunSuspended == UNCHANGED <<backfill, profileVars, askVars, uiVars>>

NextBackfill ==
    \/ BackfillStarted
    \/ \E m \in CatalogData : DetailsFetched(m)
    \/ DetailsFailed
    \/ RunSuspended /\ \E type \in Types : SnapshotDelivered("A", type)
    \/ RunSuspended /\ \E type \in Types, id \in Ids, a \in MarkArgs, now \in Clock :
                           markWatched(type, id, a[1], a[2], now)
    \/ RunSuspended /\ \E type \in Types, id \in Ids : unmarkWatched(type, id)
    \/ RunSuspended /\ \E type \in Types, id \in Ids, a \in RateArgs :
                           updateRating(type, id, a[1], a[2])
    \/ /\ inflight # << >>
       /\ backfill' = Resumed(Head(inflight), TRUE)
       /\ UNCHANGED <<profileVars, askVars, uiVars>>
       /\ WriteAccepted
    \/ /\ inflight # << >>
       /\ backfill' = Resumed(Head(inflight), FALSE)
       /\ UNCHANGED <<profileVars, askVars, uiVars>>
       /\ WriteRejected

SpecBackfill == InitBackfill /\ [][NextBackfill]_vars

\* the timer runs out, the catalog answers every fetch, the remote store
\* settles every write and delivers the snapshots of a live listener
FairBackfill ==
    /\ WF_vars(BackfillStarted)
    /\ WF_vars(DetailsFailed \/ \E m \in CatalogData : DetailsFetched(m))
    /\ \A type \in Types : WF_vars(RunSuspended /\ SnapshotDelivered("A", type))
    /\ WF_vars(inflight # << >> /\ backfill' = Resumed(Head(inflight), TRUE)
                 /\ UNCHANGED <<profileVars, askVars, uiVars>> /\ WriteAccepted)

SpecBackfillLive == InitBackfill /\ [][NextBackfill]_vars /\ FairBackfill

\* ------------------------------------ setAuthState and the backfill timer
\* sign-ins of one page load
MaxSessions == 2

\* the page before onAuthStateChanged has reported anything: session counts
\* the sign-ins, timers holds the sessions whose setTimeout is pending, runs
\* the starts of backfillMissingData
NoSession == [pc |-> "sessions", session |-> 0, timers |-> {}, runs |-> {}]

\* setAuthState(user): setUser(user.uid), render(), setTimeout(...)
SignedIn(uid) ==
    /\ currentUid = NoUid
    /\ backfill.session < MaxSessions
    /\ setUser(uid)
    /\ backfill' = [backfill EXCEPT !.session = @ + 1,
                                     !.timers = @ \cup {backfill.session + 1}]
    /\ UNCHANGED <<profileVars, askVars, uiVars>>

\* setAuthState(null): setUser(null); no timer is cleared
SignedOut ==
    /\ currentUid # NoUid
    /\ setUser(NoUid)
    /\ UNCHANGED <<backfill, profileVars, askVars, uiVars>>

\* the timer of session t runs out: backfillMissingData starts, selecting
\* from what the cache holds now
SessionTimerFired(t) ==
    /\ t \in backfill.timers
    /\ backfill' = [backfill EXCEPT
                      !.timers = @ \ {t},
                      !.runs = @ \cup {[scheduled |-> t,
                                        ran |-> IF currentUid = NoUid THEN 0
                                                ELSE backfill.session,
                                        selected |-> [type \in Types |->
                                                        needsBackfill(cache, type)]]}]
    /\ UNCHANGED <<storeVars, profileVars, askVars, uiVars>>

InitSession ==
    /\ currentUid = NoUid
    /\ cache = EmptyCache
    /\ profileCache = ""
    /\ unsubscribers = NoHandles
    /\ listeners = NoListeners
    /\ remote = [u \in Uids |-> IF u = "A" THEN StoredCollections
                                ELSE [movie |-> << Doc(BareItem(2)) >>, tv |-> << >>]]
    /\ remoteNotes = [u \in Uids |-> NoDoc]
    /\ inflight = << >>
    /\ writes = 0
    /\ last = Result("void", 0)
    /\ backfill = NoSession
    /\ items = << >> /\ profile = NoProfile
    /\ raw = << >> /\ response = NoResponse /\ ServerIdle
    /\ UiIdle

NextSession ==
    \/ \E uid \in Uids : SignedIn(uid)
    \/ SignedOut
    \/ \E t \in 1..MaxSessions : SessionTimerFired(t)
    \/ RunSuspended /\ \E u \in Uids, type \in Types : SnapshotDelivered(u, type)

SpecSession == InitSession /\ [][NextSession]_vars

\* ---------------------------------------------------------- profile builder
\* buildTasteProfile keeps the first eight genres of the ranking: .slice(0, 8)
TopGenresMax == 8

\* genre lists of stored records; Many holds more genres than the ranking keeps
Many == <<"Action", "Adventure", "Animation", "Crime", "Fantasy", "Horror",
          "Mystery", "Romance", "Drama">>
GenreLists == { <<"Drama">>, <<"Comedy", "Drama">>, Many }
Titles == {"Alien", "Fargo"}
\* the ratings the star picker stores (null or 1..5), as far as the builder's
\* thresholds tell them apart
Ratings == {NULL, 2, 3, 4}
TasteNotes == {"  ", " noir "}

\* String.prototype.trim on the notes a run uses
trim(str) == IF str = "  " THEN "" ELSE IF str = " noir " THEN "noir" ELSE str

\* a stored record as the builder reads it; records stored before genres
\* were kept have no genres field
ProfileItem(title, watched, rating, genres) ==
    [title |-> title, year |-> 1999, watched |-> watched, rating |-> rating,
     notes |-> IF rating = 4 THEN "great" ELSE "", genres |-> genres]
ProfileItemNoGenres(title, watched, rating) ==
    [title |-> title, year |-> 1999, watched |-> watched, rating |-> rating,
     notes |-> ""]

\* watched records with every rating; unwatched ones with no rating or, as a
\* patch can leave them, with one; one title has records without genres,
\* the other records with the long genre list
ProfileItems ==
    LET flags == ({TRUE} \X Ratings) \cup ({FALSE} \X {NULL, 4}) IN
       { ProfileItem(t, f[1], f[2], g) :
            t \in Titles, f \in flags, g \in GenreLists \ {Many} }
       \cup { ProfileItem("Fargo", f[1], f[2], Many) : f \in flags }
       \cup { ProfileItemNoGenres("Alien", f[1], f[2]) : f \in flags }

\* the list of the specification's example: Drama 5, Drama 3, Comedy 4
ExampleItems ==
    << [title |-> "A", year |-> 1999, watched |-> TRUE, rating |-> 5, notes |-> "",
        genres |-> <<"Drama">>],
       [title |-> "B", year |-> 1999, watched |-> TRUE, rating |-> 3, notes |-> "",
        genres |-> <<"Drama">>],
       [title |-> "C", year |-> 1999, watched |-> TRUE, rating |-> 4, notes |-> "",
        genres |-> <<"Comedy">>] >>

ItemLists ==
    UNION { [1..n -> ProfileItems] : n \in 0..MaxItems } \cup {ExampleItems}

\* i.genres || []
genresOf(i) == IF "genres" \in DOMAIN i THEN i.genres ELSE << >>

\* mutant: the loved threshold is 3
isLovedFrom3(i) == i.rating # NULL /\ i.rating >= 3

\* i.rating >= 4 (null >= 4 is false)
isLoved(i) == i.rating # NULL /\ i.rating >= 4
\* i.rating === 3
isLiked(i) == i.rating = 3
\* !i.rating
isUnrated(i) == i.rating = NULL \/ i.rating = 0

lovedEntry(i) ==
    IF i.notes # ""
    THEN [title |-> i.title, year |-> i.year, genres |-> genresOf(i),
          stars |-> i.rating, notes |-> i.notes]
    ELSE [title |-> i.title, year |-> i.year, genres |-> genresOf(i),
          stars |-> i.rating]
likedEntry(i) == [title |-> i.title, genres |-> genresOf(i)]

\* .map(i => ({ ... })), .map(i => i.title), .map(([g]) => g)
lovedEntries(list) == [k \in 1..Len(list) |-> lovedEntry(list[k])]
likedEntries(list) == [k \in 1..Len(list) |-> likedEntry(list[k])]
titles(list) == [k \in 1..Len(list) |-> list[k].title]
genreNames(entries) == [k \in 1..Len(entries) |-> entries[k][1]]

\* i.rating || 3
weight(i) == IF isUnrated(i) THEN 3 ELSE i.rating

\* genreScore[g] = (genreScore[g] || 0) + w, on the object's entries in
\* insertion order, each <<genre, score>>
addScore(entries, g, w) ==
    IF \E k \in 1..Len(entries) : entries[k][1] = g
    THEN [k \in 1..Len(entries) |->
             IF entries[k][1] = g THEN <<g, entries[k][2] + w>> ELSE entries[k]]
    ELSE Append(entries, <<g, w>>)

\* (i.genres || []).forEach(g => ...)
RECURSIVE scoreGenres(_, _, _)
scoreGenres(entries, gs, w) ==
    IF gs = << >> THEN entries
    ELSE scoreGenres(addScore(entries, Head(gs), w), Tail(gs), w)

\* mutant: only the first watched record is scored
scoreItemsFirstOnly(entries, ws) ==
    IF ws = << >> THEN entries
    ELSE scoreGenres(entries, genresOf(Head(ws)), weight(Head(ws)))

\* watched.forEach(i => ...)
RECURSIVE scoreItems(_, _)
scoreItems(entries, ws) ==
    IF ws = << >> THEN entries
    ELSE scoreItems(scoreGenres(entries, genresOf(Head(ws)), weight(Head(ws))),
                    Tail(ws))

\* mutant: an entry goes before the entries of equal score
insertBeforeEqual(sorted, e) ==
    LET before == SelectSeq(sorted, LAMBDA x : x[2] > e[2]) IN
    LET after == SelectSeq(sorted, LAMBDA x : x[2] <= e[2]) IN
       before \o << e >> \o after

\* one step of the stable sort by (a, b) => b[1] - a[1]: an entry goes
\* behind the entries of greater or equal score
insertStable(sorted, e) ==
    LET before == SelectSeq(sorted, LAMBDA x : x[2] >= e[2]) IN
    LET after == SelectSeq(sorted, LAMBDA x : x[2] < e[2]) IN
       before \o << e >> \o after

\* Object.entries(genreScore).sort((a, b) => b[1] - a[1])
RECURSIVE sortByScore(_, _)
sortByScore(sorted, entries) ==
    IF entries = << >> THEN sorted
    ELSE sortByScore(insertStable(sorted, Head(entries)), Tail(entries))

\* .slice(0, n)
slice(seq, n) == SubSeq(seq, 1, IF Len(seq) < n THEN Len(seq) ELSE n)

\* buildTasteProfile(items, tasteNotes); personalNotes "" stands for the
\* absent field
buildTasteProfile(list, tasteNotes) ==
    LET watched == SelectSeq(list, LAMBDA i : i.watched) IN
       [built |-> TRUE,
        loved |-> lovedEntries(SelectSeq(watched, isLoved)),
        liked |-> likedEntries(SelectSeq(watched, isLiked)),
        watchedUnrated |-> titles(SelectSeq(watched, isUnrated)),
        watchlist |-> titles(SelectSeq(list, LAMBDA i : ~i.watched)),
        topGenres |-> genreNames(slice(sortByScore(<< >>, scoreItems(<< >>, watched)),
                                       TopGenresMax)),
        personalNotes |-> trim(tasteNotes)]

\* the page with a list of stored records and no profile built yet
InitProfile ==
    /\ currentUid = NoUid
    /\ cache = EmptyCache
    /\ profileCache = ""
    /\ unsubscribers = NoHandles
    /\ listeners = NoListeners
    /\ remote = [u \in Uids |-> [t \in Types |-> << >>]]
    /\ remoteNotes = [u \in Uids |-> NoDoc]
    /\ inflight = << >>
    /\ writes = 0
    /\ last = Result("void", 0)
    /\ backfill = BackfillIdle
    /\ items \in ItemLists /\ profile = NoProfile
    /\ raw = << >> /\ response = NoResponse /\ ServerIdle
    /\ UiIdle

\* const profile = buildTasteProfile(allItems, getTasteNotes())
BuildProfile(tasteNotes) ==
    /\ profile' = buildTasteProfile(items, tasteNotes)
    /\ UNCHANGED <<storeVars, backfill, askVars, uiVars, items>>

\* the same records reach the builder with records k and k+1 exchanged
swap(list, k) ==
    [j \in 1..Len(list) |->
        IF j = k THEN list[k + 1] ELSE IF j = k + 1 THEN list[k] ELSE list[j]]

BuildReordered(k, tasteNotes) ==
    /\ profile.built
    /\ k \in 1..(Len(items) - 1)
    /\ items' = swap(items, k)
    /\ profile' = buildTasteProfile(items', tasteNotes)
    /\ UNCHANGED <<storeVars, backfill, askVars, uiVars>>

NextProfile ==
    \/ \E tasteNotes \in TasteNotes : BuildProfile(tasteNotes)
    \/ \E k \in 1..MaxItems, tasteNotes \in TasteNotes : BuildReordered(k, tasteNotes)

SpecProfile == InitProfile /\ [][NextProfile]_vars

\* ------------------------------------------------------ askAI (function)
\* The reply text is a sequence of pieces: "{" and "}" are single braces,
\* "prose" is text without braces, "items:[" and "]" open and close the
\* items array, and "k:v" is the member "k":"v" of a JSON object.
Absent == "<absent>"
FormatError == "Unexpected AI response format."
TypeError == "Unexpected AI response type."
RequestFailed == "AI request failed."
SyntaxError == [type |-> "<SyntaxError>"]

NoItems == [kind |-> "absent", elems |-> << >>]
NullItems == [kind |-> "null", elems |-> << >>]
ItemsArray(elems) == [kind |-> "array", elems |-> elems]
Pick == [title |-> "T"]

\* the objects the generator may put into its reply
Payloads ==
    [type : {Absent, "recommendations", "answer", "weird"},
     heading : {Absent, "", "H"},
     text : {Absent, "T"},
     items : {NoItems, NullItems, ItemsArray(<< >>), ItemsArray(<< Pick >>)}]

\* the JSON text of a payload
member(key, value) == IF value = Absent THEN << >> ELSE << key \o ":" \o value >>
itemsText(v) ==
    CASE v.kind = "absent" -> << >>
      [] v.kind = "null"   -> << "items:null" >>
      [] v.kind = "array"  ->
           << "items:[" >>
           \o (IF v.elems = << >> THEN << >> ELSE << "{", "title:T", "}" >>)
           \o << "]" >>
stringify(p) ==
    << "{" >> \o member("type", p.type) \o member("heading", p.heading)
    \o member("text", p.text) \o itemsText(p.items) \o << "}" >>

\* up to MaxProse pieces around the payload, braces among them
Prose == UNION { [1..n -> {"prose", "{", "}"}] : n \in 0..MaxProse }
Replies ==
    { pre \o body \o post :
        pre \in Prose, post \in Prose,
        body \in { stringify(p) : p \in Payloads } \cup { << >> } }

\* mutant: the pattern is lazy and stops at the first closing brace
matchLazy(str) ==
    LET opens == {k \in 1..Len(str) : str[k] = "{"} IN
    LET closes == {k \in 1..Len(str) :
                      str[k] = "}" /\ \E o \in opens : o < k} IN
       IF closes = {} THEN << >>
       ELSE SubSeq(str, CHOOSE o \in opens : \A q \in opens : o <= q,
                        CHOOSE c \in closes : \A q \in closes : c <= q)

\* raw.match(/\{[\s\S]*\}/): the leftmost, longest stretch that opens with
\* "{" and closes with "}"; << >> for null (no match)
match(str) ==
    LET opens == {k \in 1..Len(str) : str[k] = "{"} IN
    LET closes == {k \in 1..Len(str) :
                      str[k] = "}" /\ \E o \in opens : o < k} IN
       IF closes = {} THEN << >>
       ELSE SubSeq(str, CHOOSE o \in opens : \A q \in opens : o <= q,
                        CHOOSE c \in closes : \A q \in closes : q <= c)

\* JSON.parse(text): the object whose JSON text it is, or a SyntaxError
JSONparse(text) ==
    IF \E p \in Payloads : stringify(p) = text
    THEN CHOOSE p \in Payloads : stringify(p) = text
    ELSE SyntaxError

\* what askAI threw (thrown) or returned (envelope)
Threw(message) == [thrown |-> message, returned |-> FALSE]
ReturnedEnvelope(envelope) == [thrown |-> "", returned |-> TRUE, envelope |-> envelope]

\* mutant: the payload's items are passed on as they are
itemsAsParsed(v) == v

\* parsed.items || []
itemsOrEmpty(v) == IF v.kind = "array" THEN v ELSE ItemsArray(<< >>)
\* parsed.heading || '', parsed.text || ''
stringOrEmpty(v) == IF v = Absent \/ v = "" THEN "" ELSE v

\* the if / else if / else on parsed.type
classify(parsed) ==
    IF parsed.type = "recommendations"
    THEN ReturnedEnvelope([type |-> "recommendations",
                           items |-> itemsOrEmpty(parsed.items)])
    ELSE IF parsed.type = "answer"
    THEN ReturnedEnvelope([type |-> "answer",
                           heading |-> stringOrEmpty(parsed.heading),
                           text |-> stringOrEmpty(parsed.text)])
    ELSE Threw(TypeError)

\* the body of askAI's try block once the generator replied with replyText,
\* and its catch block for the SyntaxError of JSON.parse
askAIReply(replyText) ==
    LET rawText == IF replyText = << >> THEN << "{", "}" >> ELSE replyText IN
    LET matched == match(rawText) IN
       IF matched = << >> THEN Threw(FormatError)
       ELSE IF JSONparse(matched) = SyntaxError THEN Threw(RequestFailed)
       ELSE classify(JSONparse(matched))

\* an authenticated request with a prompt is waiting for the generator
InitAskAI ==
    /\ currentUid = NoUid
    /\ cache = EmptyCache
    /\ profileCache = ""
    /\ unsubscribers = NoHandles
    /\ listeners = NoListeners
    /\ remote = [u \in Uids |-> [t \in Types |-> << >>]]
    /\ remoteNotes = [u \in Uids |-> NoDoc]
    /\ inflight = << >>
    /\ writes = 0
    /\ last = Result("void", 0)
    /\ backfill = BackfillIdle
    /\ items = << >> /\ profile = NoProfile
    /\ raw \in Replies /\ response = NoResponse /\ ServerIdle
    /\ UiIdle

\* client.messages.create resolved with the reply text raw
Replied ==
    /\ response = NoResponse
    /\ response' = askAIReply(raw)
    /\ UNCHANGED <<storeVars, backfill, profileVars, uiVars, raw, server, catalog>>

\* client.messages.create rejected: the catch block rethrows
GeneratorFailed ==
    /\ response = NoResponse
    /\ response' = Threw(RequestFailed)
    /\ UNCHANGED <<storeVars, backfill, profileVars, uiVars, raw, server, catalog>>

NextAskAI == Replied \/ GeneratorFailed

SpecAskAI == InitAskAI /\ [][NextAskAI]_vars

\* ------------------------------------------- the callable functions' checks
\* request.data.path / request.data.prompt as the caller may send it: absent,
\* a number, or a string (its characters)
Undefined == [kind |-> "undefined", text |-> << >>]
Zero == [kind |-> "number", text |-> <<"0">>]
Seven == [kind |-> "number", text |-> <<"7">>]
Str(chars) == [kind |-> "string", text |-> chars]

Paths == {Undefined, Zero, Seven, Str(<< >>), Str(<<"s">>), Str(<<"/">>),
          Str(<<"/", "s">>), Str(<<"s", "/">>)}
Prompts == {Undefined, Zero, Seven, Str(<< >>), Str(<<" ">>), Str(<<" ", " ">>),
            Str(<<"h">>), Str(<<" ", "h", " ">>)}
DataOf(fn) == IF fn = "tmdb" THEN Paths ELSE Prompts

\* request.auth: absent, or the caller's identity
Callers == {NoUid} \cup Uids

HttpsError(code, message) == [kind |-> "error", code |-> code, message |-> message]
Plain(message) == [kind |-> "thrown", code |-> "", message |-> message]
Reply == [kind |-> "value", code |-> "", message |-> ""]

\* !v is false
truthy(v) ==
    \/ v.kind = "number" /\ v # Zero
    \/ v.kind = "string" /\ v.text # << >>

\* text.startsWith(c)
startsWith(text, c) == Len(text) >= 1 /\ text[1] = c

RECURSIVE trimStart(_)
trimStart(text) ==
    IF text # << >> /\ Head(text) = " " THEN trimStart(Tail(text)) ELSE text

RECURSIVE trimEnd(_)
trimEnd(text) ==
    IF text # << >> /\ text[Len(text)] = " "
    THEN trimEnd(SubSeq(text, 1, Len(text) - 1)) ELSE text

\* text.trim()
trimText(text) == trimEnd(trimStart(text))

\* mutant: any string is taken
refusedUnlessString(fn, v) == v.kind # "string"

\* tmdb:  !path || typeof path !== 'string' || !path.startsWith('/')
\* askAI: !prompt || typeof prompt !== 'string' || prompt.trim().length === 0
refused(fn, v) ==
    IF fn = "tmdb"
    THEN ~truthy(v) \/ v.kind # "string" \/ ~startsWith(v.text, "/")
    ELSE ~truthy(v) \/ v.kind # "string" \/ Len(trimText(v.text)) = 0

Unauthenticated == HttpsError("unauthenticated", "Must be signed in.")
InvalidArgument(fn) ==
    HttpsError("invalid-argument",
               IF fn = "tmdb" THEN "Invalid TMDB path." ELSE "Prompt is required.")
NotConfigured(fn) ==
    HttpsError("internal",
               IF fn = "tmdb" THEN "API key not configured." ELSE "AI not configured.")

\* the error thrown by the checks that precede the upstream call, if any
thrownByChecks(fn, auth, data, key) ==
    IF auth = NoUid THEN Unauthenticated
    ELSE IF refused(fn, data) THEN InvalidArgument(fn)
    ELSE IF ~key THEN NotConfigured(fn)
    ELSE Nothing

\* what the awaited upstream call and the reading of its reply end in:
\* tmdb:  the reply is returned | !res.ok | fetch rejects
\* askAI: an envelope is returned | the reply holds no object or an unknown
\*        type | messages.create or JSON.parse throws
\* tmdb also: res.json() rejects; its promise is returned without await, so
\* the catch block never sees the rejection and the callable wrapper reports it
Outcomes(fn) == {"returned", "refused", "threw"} \cup
                (IF fn = "tmdb" THEN {"unreadable"} ELSE {})

Internal == HttpsError("internal", "INTERNAL")

UpstreamRefusal(fn) ==
    HttpsError("internal",
               IF fn = "tmdb" THEN "TMDB error: 500" ELSE "Unexpected AI response format.")

\* catch (err) { if (err instanceof HttpsError) throw err; throw new HttpsError('internal', ...) }
caught(fn, err) ==
    IF err.kind = "error" THEN err
    ELSE HttpsError("internal", IF fn = "tmdb" THEN "Unexpected error." ELSE RequestFailed)

\* a request arrives: the handler runs its checks and either throws or
\* issues the upstream call and waits for it
onCall(fn, auth, data, key) ==
    /\ server.pc \in {"idle", "done"}
    /\ LET err == thrownByChecks(fn, auth, data, key) IN
          server' = [pc |-> IF err = Nothing THEN "calling" ELSE "done",
                     fn |-> fn, auth |-> auth, data |-> data, key |-> key,
                     called |-> err = Nothing, raised |-> err, failed |-> FALSE,
                     result |-> err]
    /\ UNCHANGED <<storeVars, backfill, profileVars, uiVars, raw, response, catalog>>

\* the upstream call settles and the handler runs to its end
UpstreamSettled(outcome) ==
    /\ server.pc = "calling"
    /\ server' =
          [server EXCEPT
             !.pc = "done",
             !.raised = IF outcome = "refused" THEN UpstreamRefusal(server.fn) ELSE Nothing,
             !.failed = outcome \in {"threw", "unreadable"},
             !.result = CASE outcome = "returned" -> Reply
                          [] outcome = "refused" -> caught(server.fn, UpstreamRefusal(server.fn))
                          [] outcome = "threw" -> caught(server.fn, Plain("fetch failed"))
                          [] OTHER -> Internal]
    /\ UNCHANGED <<storeVars, backfill, profileVars, uiVars, raw, response, catalog>>

InitServer ==
    /\ currentUid = NoUid
    /\ cache = EmptyCache
    /\ profileCache = ""
    /\ unsubscribers = NoHandles
    /\ listeners = NoListeners
    /\ remote = [u \in Uids |-> [t \in Types |-> << >>]]
    /\ remoteNotes = [u \in Uids |-> NoDoc]
    /\ inflight = << >>
    /\ writes = 0
    /\ last = Result("void", 0)
    /\ backfill = BackfillIdle
    /\ items = << >> /\ profile = NoProfile
    /\ raw = << >> /\ response = NoResponse /\ ServerIdle
    /\ UiIdle

NextServer ==
    \/ \E fn \in {"tmdb", "askAI"}, auth \in Callers, key \in BOOLEAN :
          \E data \in DataOf(fn) : onCall(fn, auth, data, key)
    \/ \E outcome \in Outcomes(server.fn) : UpstreamSettled(outcome)

SpecServer == InitServer /\ [][NextServer]_vars

\* ------------------------------------------- tmdb.js: normalization
\* names of the cast kept: m.credits.cast.slice(0, 4)
CastMax == 4
\* results a title search keeps: data.results.slice(0, 8)
SearchMax == 8
NoName == "null"

\* the record has the field (and the field is not undefined)
Has(m, f) == f \in DOMAIN m

Only(f, v) == [x \in {f} |-> v]
Maybe(f, vs) == {<< >>} \cup {Only(f, v) : v \in vs}

dateField(type) == IF type = "movie" THEN "release_date" ELSE "first_air_date"

Drama == [id |-> 18, name |-> "Drama"]
Crime == [id |-> 80, name |-> "Crime"]

\* credits as the catalog appends them: none listed, or five actors and a
\* crew with or without a director
Actors == [k \in 1..(CastMax + 1) |-> [name |-> "actor"]]
Credits ==
    {[cast |-> << >>, crew |-> << >>],
     [cast |-> Actors, crew |-> <<[job |-> "Writer", name |-> "Dan"]>>],
     [cast |-> Actors,
      crew |-> <<[job |-> "Writer", name |-> "Dan"], [job |-> "Director", name |-> "Ridley"]>>]}

\* what the catalog answers to a details request; vote_average in hundredths
DetailReplies(type) ==
    {[id |-> 1] @@ d @@ v @@ g @@ c @@ b :
        d \in Maybe(dateField(type), {19790525}),
        v \in Maybe("vote_average", {0, 786}),
        g \in Maybe("genres", {<<Drama, Crime>>}),
        c \in Maybe("credits", Credits),
        b \in IF type = "tv" THEN Maybe("created_by", {<< >>, <<[name |-> "Noah"]>>})
                             ELSE {<< >>}}

\* an entry of the results of a search request: genre codes, no genre names
SearchEntries(type) ==
    {[id |-> 2] @@ d @@ v @@ g :
        d \in Maybe(dateField(type), {19790525}),
        v \in Maybe("vote_average", {786}),
        g \in Maybe("genre_ids", {<<18, 80>>})}

\* Math.round(v * 10), v in hundredths
round10(v) == (v + 5) \div 10

\* mutant: the whole cast is kept
castOfAll(m, full) ==
    IF full /\ Has(m, "credits")
    THEN [k \in 1..Len(m.credits.cast) |-> m.credits.cast[k].name]
    ELSE << >>

\* full && m.credits ? m.credits.cast.slice(0, 4).map(c => c.name) : []
castOf(m, full) ==
    IF full /\ Has(m, "credits")
    THEN LET kept == slice(m.credits.cast, CastMax) IN
            [k \in 1..Len(kept) |-> kept[k].name]
    ELSE << >>

\* (crew.find(c => c.job === 'Director') || {}).name || null
directorIn(crew) ==
    LET found == SelectSeq(crew, LAMBDA c : c.job = "Director") IN
       IF found = << >> THEN NoName ELSE Head(found).name

\* movie: full && m.credits ? director of the crew : null
\* tv:    full && t.created_by ? (t.created_by[0] || {}).name || null : null
directorOf(type, m, full) ==
    IF type = "movie"
    THEN IF full /\ Has(m, "credits") THEN directorIn(m.credits.crew) ELSE NoName
    ELSE IF full /\ Has(m, "created_by") /\ m.created_by # << >>
         THEN m.created_by[1].name ELSE NoName

\* m.genre_ids || (m.genres || []).map(g => g.id)
genreIdsOf(m) ==
    IF Has(m, "genre_ids") THEN m.genre_ids
    ELSE IF Has(m, "genres") THEN [k \in 1..Len(m.genres) |-> m.genres[k].id]
    ELSE << >>

\* normalizeMovie(m, full) / normalizeTV(t, full)
normalizeRecord(type, m, full) ==
    [tmdbId |-> m.id,
     type |-> type,
     releaseDate |-> IF Has(m, dateField(type)) THEN m[dateField(type)] ELSE NULL,
     tmdbRating |-> IF Has(m, "vote_average") /\ m.vote_average # 0
                    THEN round10(m.vote_average) ELSE NULL,
     genres |-> IF Has(m, "genres") THEN [k \in 1..Len(m.genres) |-> m.genres[k].name]
                ELSE << >>,
     genreIds |-> genreIdsOf(m),
     cast |-> castOf(m, full),
     director |-> directorOf(type, m, full)]

\* results.slice(0, 8).map(normalizeMovie): map hands the index over as
\* the second argument, so full is false for the first entry only
normalizeResults(type, results) ==
    LET kept == slice(results, SearchMax) IN
       [k \in 1..Len(kept) |-> normalizeRecord(type, kept[k], k - 1 # 0)]

\* getMovieDetails(id) / getTVDetails(id), the catalog answering m
DetailsRead(type, m) ==
    /\ catalog' = [pc |-> "details", type |-> type, read |-> <<m>>,
                   out |-> <<normalizeRecord(type, m, TRUE)>>]
    /\ UNCHANGED <<storeVars, backfill, profileVars, uiVars, raw, response, server>>

\* searchMovies(query) / searchTV(query), the catalog answering n entries m
SearchRead(type, m, n) ==
    /\ catalog' = [pc |-> "search", type |-> type, read |-> [k \in 1..n |-> m],
                   out |-> normalizeResults(type, [k \in 1..n |-> m])]
    /\ UNCHANGED <<storeVars, backfill, profileVars, uiVars, raw, response, server>>

InitCatalog ==
    /\ currentUid = NoUid
    /\ cache = EmptyCache
    /\ profileCache = ""
    /\ unsubscribers = NoHandles
    /\ listeners = NoListeners
    /\ remote = [u \in Uids |-> [t \in Types |-> << >>]]
    /\ remoteNotes = [u \in Uids |-> NoDoc]
    /\ inflight = << >>
    /\ writes = 0
    /\ last = Result("void", 0)
    /\ backfill = BackfillIdle
    /\ items = << >> /\ profile = NoProfile
    /\ raw = << >> /\ response = NoResponse /\ ServerIdle
    /\ UiIdle

NextCatalog ==
    \/ \E type \in Types : \E m \in DetailReplies(type) : DetailsRead(type, m)
    \/ \E type \in Types, n \in {0, 1, 2, SearchMax, SearchMax + 1} :
          \E m \in SearchEntries(type) : SearchRead(type, m, n)

SpecCatalog == InitCatalog /\ [][NextCatalog]_vars

\* ------------------------------------------- the advisor (explore view)
\* picks of a recommendations envelope (LongList apart)
MaxPicks == 2

Pending == "pending"
AIPicks ==
    { [title |-> "Alien", reason |-> "dark"], [title |-> "Fargo", reason |-> "funny"],
      [title |-> "Zzz", reason |-> "odd"], [title |-> "Alien", reason |-> "again"] }
PickLists == UNION { [1..n -> AIPicks] : n \in 0..MaxPicks }
\* the envelopes followed while the lists change: a title the catalog
\* knows, a title it does not know
ShortLists ==
    UNION { [1..n -> { [title |-> "Alien", reason |-> "dark"],
                       [title |-> "Zzz", reason |-> "odd"] }] : n \in 0..MaxPicks }
\* an envelope of more picks than the generator was asked for
LongList ==
    [k \in 1..9 |-> IF k % 3 = 1 THEN [title |-> "Alien", reason |-> "dark"]
                    ELSE IF k % 3 = 2 THEN [title |-> "Fargo", reason |-> "funny"]
                    ELSE [title |-> "Zzz", reason |-> "odd"]]

\* data.results of GET /search/<type>?query=<title>, as (id, title) pairs
CatalogResults(type, title) ==
    IF title = "Alien"
    THEN IF type = "movie"
         THEN [k \in 1..9 |-> IF k = 1 THEN <<1, "Alien">> ELSE <<2, "Aliens">>]
         ELSE << <<2, "Alien Nation">> >>
    ELSE IF title = "Fargo"
    THEN IF type = "movie" THEN << <<2, "Fargo">> >> ELSE << <<1, "Fargo">> >>
    ELSE << >>

\* normalizeMovie(m) / normalizeTV(t): the fields the advisor and addItem read
normalizeResult(type, m) ==
    [tmdbId |-> m[1], type |-> type, title |-> m[2], tmdbRating |-> NULL,
     watched |-> FALSE, watchedAt |-> UNDEF, rating |-> UNDEF, notes |-> "",
     addedAt |-> UNDEF]

\* searchMovies(query) / searchTV(query) when the request succeeds
searchTitle(type, query) ==
    LET kept == slice(CatalogResults(type, query), SearchMax) IN
       [k \in 1..Len(kept) |-> normalizeResult(type, kept[k])]

\* the contents of #ai-results-section
Shown(kind, cards) == [kind |-> kind, cards |-> cards]
Blank == Shown("blank", << >>)

\* the explore view before anything was asked; the request that is not there
AppStart ==
    [mediaType |-> "movie", filter |-> "explore", aiResults |-> << >>,
     results |-> Blank, disabled |-> TRUE]
NoRun ==
    [pc |-> "idle", attached |-> FALSE, sent |-> [profileOf |-> "", mediaType |-> ""],
     searches |-> << >>, settled |-> << >>, final |-> ""]

\* new Set(getAll(state.mediaType).map(i => i.tmdbId)).has(item.tmdbId)
onList(c, type, tmdbId) ==
    \E k \in 1..Len(getAll(c, type)) : getAll(c, type)[k].tmdbId = tmdbId

\* renderAIResults(results, prompt): one card per pick that has a tmdbItem
renderAIResults(c, type, picks) ==
    LET found == SelectSeq(picks, LAMBDA p : p.tmdbItem # NoItem) IN
       Shown("picks",
             [k \in 1..Len(found) |->
                 [tmdbId |-> found[k].tmdbItem.tmdbId,
                  title |-> found[k].tmdbItem.title,
                  reason |-> found[k].reason,
                  onList |-> onList(c, type, found[k].tmdbItem.tmdbId)]])

\* renderExplore(): the view is rebuilt; the picks kept in state.aiResults
\* are rendered again
renderExplore(a, c) ==
    [a EXCEPT
       !.disabled = ~ \E k \in 1..Len(getAll(c, a.mediaType)) :
                          getAll(c, a.mediaType)[k].watched,
       !.results = IF Len(a.aiResults) > 0
                   THEN renderAIResults(c, a.mediaType, a.aiResults)
                   ELSE Blank]

\* render(): renderFilters() calls renderExplore() under the explore filter
render(a, c) == IF a.filter = "explore" THEN renderExplore(a, c) ELSE a

\* the elements submitAIPrompt holds once the view a was rendered: rebuilt
\* views leave them outside the document
heldAfterRender(r, a) == [r EXCEPT !.attached = @ /\ a.filter # "explore"]

\* the finally block: btn.disabled = false on the button the call holds
finallyEnabled(r, a) == IF r.attached THEN [a EXCEPT !.disabled = FALSE] ELSE a

\* mutant: every pick takes the first result of the first pick's search
tmdbItemOfFirstSearch(r, i, results) ==
    LET first == searchTitle(r.searches[1].type, r.searches[1].title) IN
       IF first = << >> THEN NoItem ELSE first[1]

\* results[0] || null
tmdbItemOf(r, i, results) == IF results = << >> THEN NoItem ELSE results[1]

\* mutant: a failed search resolves the pick to the pick before it
resolvedAfterThrowChained(r, i) ==
    IF i > 1 /\ r.searches[i - 1].outcome # Pending THEN r.settled[i - 1]
    ELSE [tmdbItem |-> NoItem] @@ r.searches[i].pick

\* catch { return { ...pick, tmdbItem: null } }
resolvedAfterThrow(r, i) == [tmdbItem |-> NoItem] @@ r.searches[i].pick

\* mutant: the picks whose search found nothing are dropped
resolvedFoundOnly(r) == SelectSeq(r.settled, LAMBDA p : p.tmdbItem # NoItem)

\* await Promise.all(...): the resolved picks in the order of the items
resolvedInOrder(r) == r.settled

\* the statements after await Promise.all, and the finally block
afterResolution(r, a, c) ==
    LET resolved == resolvedInOrder(r) IN
       finallyEnabled(r, [a EXCEPT !.aiResults = resolved,
                                   !.results = renderAIResults(c, a.mediaType, resolved)])

uiOnly == UNCHANGED <<storeVars, backfill, profileVars, askVars, search>>

\* a click on #ai-submit-btn with a prompt typed: submitAIPrompt up to
\* await askAI(profile, prompt, state.mediaType), the profile built from
\* getAll(state.mediaType); one request is followed to its end
Submit ==
    /\ app.filter = "explore" /\ ~ app.disabled
    /\ request.pc = "idle"
    /\ app' = [app EXCEPT !.disabled = TRUE, !.results = Shown("loading", << >>)]
    /\ request' = [NoRun EXCEPT !.pc = "asking", !.attached = TRUE,
                                !.sent = [profileOf |-> app.mediaType,
                                          mediaType |-> app.mediaType]]
    /\ uiOnly

\* askAI rejected (the call failed, or the function threw): the catch block
AskFailed(message) ==
    /\ request.pc = "asking"
    /\ app' = finallyEnabled(request,
                  IF request.attached
                  THEN [app EXCEPT !.results = Shown("error", << >>)] ELSE app)
    /\ request' = [request EXCEPT !.pc = "done", !.final = "error"]
    /\ uiOnly

\* askAI returned an answer envelope: renderAIAnswer
Answered ==
    /\ request.pc = "asking"
    /\ app' = finallyEnabled(request, [app EXCEPT !.results = Shown("answer", << >>)])
    /\ request' = [request EXCEPT !.pc = "done", !.final = "answer"]
    /\ uiOnly

\* askAI returned a recommendations envelope: one search per item is
\* started; with no item, Promise.all resolves at once
Recommended(picks) ==
    /\ request.pc = "asking"
    /\ LET r == [request EXCEPT
                   !.searches = [k \in 1..Len(picks) |->
                                    [pick |-> picks[k], title |-> picks[k].title,
                                     type |-> app.mediaType, outcome |-> Pending]],
                   !.settled = [k \in 1..Len(picks) |-> picks[k]]] IN
         IF picks = << >>
         THEN /\ app' = afterResolution(r, app, cache)
              /\ request' = [r EXCEPT !.pc = "done", !.final = "results"]
         ELSE /\ request' = [r EXCEPT !.pc = "resolving"]
              /\ app' = app
    /\ uiOnly

\* the search of pick i settled with the pick resolved to entry; the last
\* search to settle lets Promise.all resolve
Settled(i, outcome, entry) ==
    LET r == [request EXCEPT
                !.searches[i].outcome = outcome,
                !.settled[i] = entry] IN
       IF \A j \in 1..Len(r.searches) : r.searches[j].outcome # Pending
       THEN /\ app' = afterResolution(r, app, cache)
            /\ request' = [r EXCEPT !.pc = "done", !.final = "results"]
       ELSE /\ request' = r
            /\ app' = app

\* searchFn(pick.title) returned: { ...pick, tmdbItem: results[0] || null }
SearchReturned(i) ==
    /\ request.pc = "resolving"
    /\ i \in 1..Len(request.searches)
    /\ request.searches[i].outcome = Pending
    /\ LET results == searchTitle(request.searches[i].type, request.searches[i].title) IN
         Settled(i, "returned",
                 [tmdbItem |-> tmdbItemOf(request, i, results)] @@ request.searches[i].pick)
    /\ uiOnly

\* searchFn(pick.title) threw: the catch of the pick's own callback
SearchThrew(i) ==
    /\ request.pc = "resolving"
    /\ i \in 1..Len(request.searches)
    /\ request.searches[i].outcome = Pending
    /\ Settled(i, "threw", resolvedAfterThrow(request, i))
    /\ uiOnly

\* setMediaType(type)
setMediaType(type) ==
    /\ app' = render([app EXCEPT !.mediaType = type], cache)
    /\ request' = heldAfterRender(request, app)
    /\ uiOnly

\* setFilter(f)
setFilter(f) ==
    /\ app' = render([app EXCEPT !.filter = f], cache)
    /\ request' = heldAfterRender(request, app')
    /\ uiOnly

\* a snapshot of the signed-in user's list arrives: the cache is replaced
\* and __cinemaic_onStoreUpdate renders
SnapshotRendered(type) ==
    /\ SnapshotDelivered(currentUid, type)
    /\ app' = render(app, cache')
    /\ request' = heldAfterRender(request, app)
    /\ UNCHANGED <<backfill, profileVars, askVars, search>>

\* the remote store accepted a write of another session of the user: an
\* item was added to, or removed from, the list
ListChanged(type, docs) ==
    /\ remote[currentUid][type] # docs
    /\ remote' = [remote EXCEPT ![currentUid][type] = docs]
    /\ UNCHANGED <<currentUid, cache, profileCache, unsubscribers, listeners,
                   remoteNotes, inflight, writes, last>>
    /\ UNCHANGED <<backfill, profileVars, askVars, uiVars>>

\* the user is signed in, the lists are subscribed and hold the records of
\* earlier sessions; nothing was delivered yet
ExploreCollections ==
    [movie |-> << Doc(StoredItem(2)) >>, tv |-> << Doc(StoredItem(1)) >>]
\* the list with the other item added, and with it removed again
ChangedCollections(type) ==
    { << Doc(StoredItem(1)), Doc(StoredItem(2)) >>, ExploreCollections[type] }

InitExplore ==
    /\ currentUid = "A"
    /\ cache = EmptyCache
    /\ profileCache = ""
    /\ unsubscribers = [k \in Kinds |-> "A"]
    /\ listeners = Subscribe(NoListeners, "A")
    /\ remote = [u \in Uids |-> IF u = "A" THEN ExploreCollections
                                ELSE [t \in Types |-> << >>]]
    /\ remoteNotes = [u \in Uids |-> NoDoc]
    /\ inflight = << >>
    /\ writes = 0
    /\ last = Result("void", 0)
    /\ backfill = BackfillIdle
    /\ items = << >> /\ profile = NoProfile
    /\ raw = << >> /\ response = NoResponse /\ ServerIdle
    /\ app = AppStart /\ request = NoRun /\ search = NoSearch

NextExplore ==
    \/ Submit
    \/ \E m \in {FormatError, TypeError, RequestFailed} : AskFailed(m)
    \/ Answered
    \/ \E picks \in ShortLists : Recommended(picks)
    \/ \E i \in 1..MaxPicks : SearchReturned(i)
    \/ \E i \in 1..MaxPicks : SearchThrew(i)
    \/ \E type \in Types : setMediaType(type)
    \/ \E f \in {"explore", "watchlist"} : setFilter(f)
    \/ \E type \in Types : SnapshotRendered(type)
    \/ \E type \in Types : \E docs \in ChangedCollections(type) :
          ListChanged(type, docs)

SpecExplore == InitExplore /\ [][NextExplore]_vars

\* the resolution stage alone: the lists are loaded, and the envelope may be
\* any list of picks
InitResolve ==
    /\ currentUid = "A"
    /\ cache = [t \in Types |-> onSnapshotCache(<< >>, ExploreCollections[t])]
    /\ profileCache = ""
    /\ unsubscribers = [k \in Kinds |-> "A"]
    /\ listeners = Subscribe(NoListeners, "A")
    /\ remote = [u \in Uids |-> IF u = "A" THEN ExploreCollections
                                ELSE [t \in Types |-> << >>]]
    /\ remoteNotes = [u \in Uids |-> NoDoc]
    /\ inflight = << >>
    /\ writes = 0
    /\ last = Result("void", 0)
    /\ backfill = BackfillIdle
    /\ items = << >> /\ profile = NoProfile
    /\ raw = << >> /\ response = NoResponse /\ ServerIdle
    /\ app = renderExplore(AppStart, cache) /\ request = NoRun /\ search = NoSearch

NextResolve ==
    \/ Submit
    \/ \E picks \in PickLists \cup {LongList} : Recommended(picks)
    \/ \E i \in 1..Len(LongList) : SearchReturned(i)
    \/ \E i \in 1..Len(LongList) : SearchThrew(i)

SpecResolve == InitResolve /\ [][NextResolve]_vars

\* a click on the add button of card k of the recommendations shown (the
\* button of a title on the list is disabled): the pick of the card's id is
\* looked up in the list that was rendered and addItem(state.mediaType,
\* pick.tmdbItem) runs up to its await
CardAddClicked(k, now) ==
    /\ app.filter = "explore"
    /\ app.results.kind = "picks"
    /\ k \in 1..Len(app.results.cards)
    /\ ~ app.results.cards[k].onList
    /\ LET id == app.results.cards[k].tmdbId IN
       LET found == SelectSeq(app.aiResults, LAMBDA p : p.tmdbItem.tmdbId = id) IN
         addItem(app.mediaType, Head(found).tmdbItem, now)
    /\ StoreOnly

\* the user is signed in with watched movies and no tv show on the lists;
\* the lists are loaded and the explore view is rendered
AddCollections == [movie |-> << Doc(StoredItem(2)) >>, tv |-> << >>]

InitAdd ==
    /\ currentUid = "A"
    /\ cache = [t \in Types |-> onSnapshotCache(<< >>, AddCollections[t])]
    /\ profileCache = ""
    /\ unsubscribers = [k \in Kinds |-> "A"]
    /\ listeners = Subscribe(NoListeners, "A")
    /\ remote = [u \in Uids |-> IF u = "A" THEN AddCollections
                                ELSE [t \in Types |-> << >>]]
    /\ remoteNotes = [u \in Uids |-> NoDoc]
    /\ inflight = << >>
    /\ writes = 0
    /\ last = Result("void", 0)
    /\ backfill = BackfillIdle
    /\ items = << >> /\ profile = NoProfile
    /\ raw = << >> /\ response = NoResponse /\ ServerIdle
    /\ app = renderExplore(AppStart, cache) /\ request = NoRun /\ search = NoSearch

NextAdd ==
    \/ Submit
    \/ \E picks \in ShortLists : Recommended(picks)
    \/ \E i \in 1..MaxPicks : SearchReturned(i)
    \/ \E type \in Types : setMediaType(type)
    \/ \E k \in 1..MaxPicks, now \in Clock : CardAddClicked(k, now)
    \/ StoreOnly /\ WriteAccepted
    \/ \E type \in Types : SnapshotRendered(type)

SpecAdd == InitAdd /\ [][NextAdd]_vars

\* ------------------------------------------------------ the search modal
\* input events of one opening of the modal
MaxTyped == 3

\* what the user leaves in #search-input
SearchInputs == {"  ", "Alien", "Fargo"}
NoTimer == 0

\* the modal as openSearchModal() leaves it
SearchOpened ==
    [open |-> TRUE, input |-> "", typed |-> 0, searchDebounce |-> NoTimer,
     timers |-> {}, dispatched |-> 0, flying |-> {}, spinner |-> FALSE,
     shown |-> [kind |-> "blank", of |-> 0, results |-> << >>]]

\* mutant: the pending timeout is left to run
clearTimeoutNot(timers, id) == timers

\* clearTimeout(id)
clearTimeout(timers, id) == {t \in timers : t.id # id}

\* the input listener of #search-input, the input now holding value
InputTyped(value) ==
    /\ search.typed < MaxTyped
    /\ LET q == trim(value) IN
       LET kept == clearTimeout(search.timers, search.searchDebounce) IN
         search' =
            IF q = ""
            THEN [search EXCEPT !.input = value, !.typed = @ + 1, !.timers = kept,
                                !.shown = [kind |-> "blank", of |-> 0, results |-> << >>]]
            ELSE [search EXCEPT !.input = value, !.typed = @ + 1,
                                !.searchDebounce = search.typed + 1,
                                !.timers = kept \cup {[id |-> search.typed + 1, q |-> q]}]
    /\ UNCHANGED <<storeVars, backfill, profileVars, askVars, app, request>>

\* the timeout t ran out: runSearch(t.q) up to its await
runSearch(t) ==
    /\ t \in search.timers
    /\ search' = [search EXCEPT
                    !.timers = @ \ {t},
                    !.dispatched = @ + 1,
                    !.spinner = TRUE,
                    !.flying = @ \cup {[n |-> search.dispatched + 1, query |-> t.q,
                                        type |-> app.mediaType]}]
    /\ UNCHANGED <<storeVars, backfill, profileVars, askVars, app, request>>

\* the search f returned: its results, or the "No results found." note, are
\* written into #search-results; finally hides the spinner
SearchResolved(f) ==
    /\ f \in search.flying
    /\ LET results == searchTitle(f.type, f.query) IN
         search' = [search EXCEPT
                      !.flying = @ \ {f},
                      !.spinner = FALSE,
                      !.shown = [kind |-> IF Len(results) > 0 THEN "results" ELSE "empty",
                                 of |-> f.n, results |-> results]]
    /\ UNCHANGED <<storeVars, backfill, profileVars, askVars, app, request>>

\* the search f threw: the catch block writes "Search failed."
SearchRejected(f) ==
    /\ f \in search.flying
    /\ search' = [search EXCEPT
                    !.flying = @ \ {f},
                    !.spinner = FALSE,
                    !.shown = [kind |-> "failed", of |-> f.n, results |-> << >>]]
    /\ UNCHANGED <<storeVars, backfill, profileVars, askVars, app, request>>

\* the user is signed in, the lists are loaded and the search modal was opened
InitSearch ==
    /\ currentUid = "A"
    /\ cache = [t \in Types |-> onSnapshotCache(<< >>, ExploreCollections[t])]
    /\ profileCache = ""
    /\ unsubscribers = [k \in Kinds |-> "A"]
    /\ listeners = Subscribe(NoListeners, "A")
    /\ remote = [u \in Uids |-> IF u = "A" THEN ExploreCollections
                                ELSE [t \in Types |-> << >>]]
    /\ remoteNotes = [u \in Uids |-> NoDoc]
    /\ inflight = << >>
    /\ writes = 0
    /\ last = Result("void", 0)
    /\ backfill = BackfillIdle
    /\ items = << >> /\ profile = NoProfile
    /\ raw = << >> /\ response = NoResponse /\ ServerIdle
    /\ app \in {[AppStart EXCEPT !.filter = "watchlist", !.mediaType = type] :
                   type \in Types}
    /\ request = NoRun
    /\ search = SearchOpened

NextSearch ==
    \/ \E value \in SearchInputs : InputTyped(value)
    \/ \E t \in search.timers : runSearch(t)
    \/ \E f \in search.flying : SearchResolved(f)
    \/ \E f \in search.flying : SearchRejected(f)

SpecSearch == InitSearch /\ [][NextSearch]_vars

\* ================================================================ claims
\* the records of a snapshot, in the snapshot's order
DocsData(docs) == [i \in 1..Len(docs) |-> docs[i].data]

\* a step that touches nothing but the record of the last result
NoEffect ==
    UNCHANGED <<currentUid, cache, profileCache, unsubscribers, listeners, remote,
                remoteNotes, inflight, writes>>

\* no two entries of a sequence of records carry the same tmdbId
UniqueIds(recs) ==
    \A i, j \in 1..Len(recs) : recs[i].tmdbId = recs[j].tmdbId => i = j

\* C1: addItem for an id that is in the local collection of its category
\* returns false, issues no write and leaves both local collections (and the
\* remote store) as they are.
C1_AddDuplicateRefused ==
    [][\A type \in Types, item \in Candidates, now \in Clock :
         (addItem(type, item, now) /\ getItem(cache, type, item.tmdbId) # NoItem)
            => /\ last'.ret = "false"
               /\ inflight' = inflight
               /\ writes' = writes
               /\ remote' = remote
               /\ cache' = cache]_vars

\* a duplicate add was refused while an identity is bound
C1_Witness ==
    /\ currentUid # NoUid
    /\ last.ret = "false"
    /\ \E type \in Types, item \in Candidates : getItem(cache, type, item.tmdbId) # NoItem

\* C2: while signed out (from setUser(null) until the next setUser with an
\* identity) getAll is empty for both categories, whatever happened before.
C2_SignedOutEmpty ==
    currentUid = NoUid => \A type \in Types : getAll(cache, type) = << >>

\* signed out again after a session that stored records
C2_Witness ==
    /\ currentUid = NoUid
    /\ \E u \in Uids, type \in Types : remote[u][type] # << >>
    /\ cache = EmptyCache

\* C3: per category and for the taste notes there is exactly one live
\* listener while an identity is bound, it belongs to that identity, and
\* there is none while signed out.
C3_OneListenerSet ==
    \A u \in Uids, k \in Kinds :
        /\ listeners[u][k] = (IF u = currentUid THEN 1 ELSE 0)
        /\ unsubscribers[k] = (IF currentUid = NoUid THEN NoSub ELSE currentUid)

\* identity B was bound after identity A had been bound and had stored records
C3_Witness ==
    /\ currentUid = "B"
    /\ \E type \in Types : remote["A"][type] # << >>
    /\ \A k \in Kinds : listeners["B"][k] = 1 /\ listeners["A"][k] = 0

\* C4 (as claimed, in its case of a bind to another identity): a setUser(uid)
\* that changes the bound identity, to null or to another identity, leaves
\* both local collections empty, so that no record of the previous identity
\* is returned by getAll or getItem afterwards.
C4_BindClearsCollections ==
    [][\A uid \in Uids \cup {NoUid} :
         (setUser(uid) /\ uid # currentUid) => cache' = EmptyCache]_vars

\* C5: a delivered snapshot replaces the local collection of its category by
\* exactly the snapshot's records in the snapshot's order, leaves the other
\* category alone, and invokes the invalidation callback once, after the
\* replacement.
C5_SnapshotReplaces ==
    [][\A u \in Uids, type \in Types :
         SnapshotDelivered(u, type)
            => /\ getAll(cache', type) = DocsData(remote[u][type])
               /\ \A other \in Types \ {type} : cache'[other] = cache[other]
               /\ last'.cb = 1
               /\ last'.ret = "rendered"]_vars

\* a snapshot of two records was delivered and rendered
C5_Witness ==
    /\ last.cb = 1
    /\ \E type \in Types :
          /\ Len(cache[type]) = 2
          /\ cache[type][1].tmdbId = 1
          /\ cache[type][2].tmdbId = 2
          /\ cache[type] = DocsData(remote[currentUid][type])

\* C6: only setUser and snapshot delivery write the local collections: every
\* other step (a mutation issued, accepted or rejected) leaves them unchanged.
C6_MutationsLeaveCache ==
    [][\/ cache' = cache
       \/ \E uid \in Uids \cup {NoUid} : setUser(uid)
       \/ \E u \in Uids, type \in Types : SnapshotDelivered(u, type)]_vars

\* an add was accepted by the remote store and is not in the local collection
C6_Witness ==
    /\ currentUid # NoUid
    /\ last.ret = "true"
    /\ cache = EmptyCache
    /\ \E type \in Types : remote[currentUid][type] # << >>

\* C7: addItem for an id that is not in the local collection, with an
\* identity bound, issues exactly one setDoc for the document keyed by the id
\* in that category of the bound identity; its data are the candidate's
\* descriptive fields with watched=false, rating=null, notes="" and addedAt=now
\* whatever the candidate carried; it returns true when the write is accepted.
C7_AddCreates ==
    [][/\ \A type \in Types, item \in Candidates, now \in Clock :
            (addItem(type, item, now) /\ currentUid # NoUid
                /\ getItem(cache, type, item.tmdbId) = NoItem)
               => /\ Len(inflight') = Len(inflight) + 1
                  /\ SubSeq(inflight', 1, Len(inflight)) = inflight
                  /\ LET w == inflight'[Len(inflight')] IN
                        /\ w.op = "setDoc"
                        /\ w.uid = currentUid /\ w.type = type
                        /\ w.key = String(item.tmdbId)
                        /\ w.data.tmdbId = item.tmdbId
                        /\ w.data.tmdbRating = item.tmdbRating
                        /\ w.data.watched = FALSE
                        /\ w.data.rating = NULL
                        /\ w.data.notes = ""
                        /\ w.data.addedAt = now
                  /\ last'.ret = "pending"
       /\ (WriteAccepted /\ Head(inflight).caller = "addItem")
               => LET w == Head(inflight) IN
                     /\ last'.ret = "true"
                     /\ \E i \in 1..Len(remote'[w.uid][w.type]) :
                           remote'[w.uid][w.type][i] = [key |-> w.key, data |-> w.data]]_vars

\* the add of a candidate that carried user-owned fields was accepted
C7_Witness ==
    /\ last.ret = "true"
    /\ \E u \in Uids, type \in Types :
          \E i \in 1..Len(remote[u][type]) :
             LET d == remote[u][type][i].data IN
                /\ d.tmdbId = 2 /\ d.tmdbRating = 70
                /\ d.watched = FALSE /\ d.rating = NULL /\ d.notes = ""
                /\ d.addedAt \in Clock

\* C8: with no identity bound every mutation returns without issuing a write
\* and without changing local state; it does not throw and addItem returns
\* false.
C8_SignedOutNoOps ==
    [][currentUid = NoUid =>
         /\ \A type \in Types, item \in Candidates, now \in Clock :
               addItem(type, item, now) => NoEffect /\ last'.ret = "false"
         /\ \A type \in Types, id \in Ids :
               /\ removeItem(type, id) => NoEffect /\ last'.ret = "void"
               /\ unmarkWatched(type, id) => NoEffect /\ last'.ret = "void"
               /\ \A a \in MarkArgs, now \in Clock :
                     markWatched(type, id, a[1], a[2], now)
                        => NoEffect /\ last'.ret = "void"
               /\ \A a \in RateArgs :
                     updateRating(type, id, a[1], a[2]) => NoEffect /\ last'.ret = "void"
               /\ \A u \in PatchArgs :
                     patchItem(type, id, u) => NoEffect /\ last'.ret = "void"
         /\ \A notes \in NoteTexts :
               saveTasteNotes(notes) => NoEffect /\ last'.ret = "void"]_vars

\* an add was refused while signed out, after a session that stored records
C8_Witness ==
    /\ currentUid = NoUid
    /\ last.ret = "false"
    /\ inflight = << >>
    /\ \E u \in Uids, type \in Types : remote[u][type] # << >>

\* C9: every remote collection and every local collection holds at most one
\* record per id (and the remote one at most one document per key).
C9_UniqueIds ==
    /\ \A u \in Uids, type \in Types :
          /\ UniqueIds(DocsData(remote[u][type]))
          /\ \A i, j \in 1..Len(remote[u][type]) :
                remote[u][type][i].key = remote[u][type][j].key => i = j
    /\ \A type \in Types : UniqueIds(cache[type])

\* a second add of an id is in flight while the first one has been accepted
\* and has not been echoed into the local collection
C9_Witness ==
    /\ inflight # << >>
    /\ LET w == Head(inflight) IN
          /\ w.caller = "addItem"
          /\ w.uid = currentUid
          /\ HasDoc(remote[w.uid][w.type], w.key)
          /\ getItem(cache, w.type, KeyId(w.key)) = NoItem

\* C10 (as claimed): an accepted patchItem leaves watched, watchedAt, rating,
\* notes and addedAt of every record as they were, whatever its updates.
C10_PatchKeepsUserFields ==
    [][(WriteAccepted /\ Head(inflight).caller = "patchItem")
          => LET w == Head(inflight) IN
                /\ Len(remote'[w.uid][w.type]) = Len(remote[w.uid][w.type])
                /\ \A i \in 1..Len(remote[w.uid][w.type]) :
                      \A f \in UserFields :
                         remote'[w.uid][w.type][i].data[f] = remote[w.uid][w.type][i].data[f]]_vars

\* the remote collections after a step differ from the ones before only in
\* the document of write w, and there only in the fields named by changed
OnlyFieldsChanged(w, changed) ==
    /\ \A u \in Uids, t \in Types :
          (u # w.uid \/ t # w.type) => remote'[u][t] = remote[u][t]
    /\ Len(remote'[w.uid][w.type]) = Len(remote[w.uid][w.type])
    /\ \A i \in 1..Len(remote[w.uid][w.type]) :
          LET d == remote[w.uid][w.type][i] IN
          LET e == remote'[w.uid][w.type][i] IN
             IF d.key # w.key
             THEN e = d
             ELSE /\ e.key = d.key
                  /\ DOMAIN e.data = DOMAIN d.data
                  /\ \A f \in DOMAIN d.data \ changed : e.data[f] = d.data[f]

\* the document write w names, in the remote collections after the step
DocAfter(w) ==
    LET coll == remote'[w.uid][w.type] IN
       coll[CHOOSE i \in 1..Len(coll) : coll[i].key = w.key].data

\* the step issues exactly the write w of the bound identity and awaits it
IssuesOnly(w) ==
    /\ inflight' = Append(inflight, w)
    /\ last'.ret = "pending"
    /\ UNCHANGED <<cache, remote>>

C13_MarkAndRateScope ==
    [][/\ \A type \in Types, id \in Ids, a \in MarkArgs, now \in Clock :
            (markWatched(type, id, a[1], a[2], now) /\ currentUid # NoUid)
               => \E w \in {inflight'[Len(inflight')]} :
                     /\ IssuesOnly(w)
                     /\ w.op = "updateDoc" /\ w.caller = "markWatched"
                     /\ w.uid = currentUid /\ w.type = type /\ w.key = String(id)
                     /\ w.data.rating = a[1] /\ w.data.notes = a[2]
                     /\ w.data.watchedAt = now
       /\ \A type \in Types, id \in Ids, a \in RateArgs :
            (updateRating(type, id, a[1], a[2]) /\ currentUid # NoUid)
               => \E w \in {inflight'[Len(inflight')]} :
                     /\ IssuesOnly(w)
                     /\ w.op = "updateDoc" /\ w.caller = "updateRating"
                     /\ w.uid = currentUid /\ w.type = type /\ w.key = String(id)
                     /\ w.data.rating = a[1] /\ w.data.notes = a[2]
       /\ (WriteAccepted /\ Head(inflight).caller = "markWatched")
            => LET w == Head(inflight) IN
                  /\ OnlyFieldsChanged(w, {"watched", "watchedAt", "rating", "notes"})
                  /\ DocAfter(w).watched = TRUE
                  /\ DocAfter(w).watchedAt = w.data.watchedAt
                  /\ DocAfter(w).rating = w.data.rating
                  /\ DocAfter(w).notes = w.data.notes
       /\ (WriteAccepted /\ Head(inflight).caller = "updateRating")
            => LET w == Head(inflight) IN
                  /\ OnlyFieldsChanged(w, {"rating", "notes"})
                  /\ DocAfter(w).rating = w.data.rating
                  /\ DocAfter(w).notes = w.data.notes]_vars

\* a stored record was marked watched with a rating and notes
C13_Witness ==
    /\ last.ret = "void"
    /\ \E u \in Uids, type \in Types :
          \E i \in 1..Len(remote[u][type]) :
             LET d == remote[u][type][i].data IN
                /\ d.tmdbId = 2 /\ d.tmdbRating = 70 /\ d.addedAt \in Clock
                /\ d.watched = TRUE /\ d.watchedAt \in Clock
                /\ d.rating = 4 /\ d.notes = "good"

\* C15: when the remote store rejects a write the awaiting mutation throws
\* (addItem does not return true), the write is dropped and no other write is
\* issued in its place, and the cache, the profile cache and the remote
\* store are as before.
C15_RejectionSurfaces ==
    [][WriteRejected
          => /\ last'.ret = "throws"
             /\ last'.ret # Completion(Head(inflight).caller)
             /\ inflight' = Tail(inflight)
             /\ writes' = writes
             /\ UNCHANGED <<cache, profileCache, remote, remoteNotes>>]_vars

\* a mutation of a cached record threw while an identity was bound
C15_Witness ==
    /\ currentUid # NoUid
    /\ last.ret = "throws"
    /\ inflight = << >>
    /\ \E type \in Types : cache[type] # << >>

\* C14: while identity u stays bound, a record the remote store holds (an
\* accepted add, not removed since) is eventually found in the cache, and a
\* record the remote store does not hold (an accepted remove, not added since)
\* is eventually not found, given that live listeners are eventually handed
\* the current state of their collection.
C14_WritesEventuallyReflected ==
    \A u \in Uids, type \in Types, id \in Ids :
       /\ (currentUid = u /\ HasDoc(remote[u][type], String(id)))
            ~> \/ getItem(cache, type, id) # NoItem
               \/ currentUid # u
               \/ ~HasDoc(remote[u][type], String(id))
       /\ (currentUid = u /\ ~HasDoc(remote[u][type], String(id)))
            ~> \/ getItem(cache, type, id) = NoItem
               \/ currentUid # u
               \/ HasDoc(remote[u][type], String(id))

\* an accepted remove was echoed: the record had been added and cached, and
\* is found neither in the remote store nor in the cache any more
C14_Witness ==
    /\ currentUid # NoUid
    /\ writes = 2 /\ inflight = << >>
    /\ last.ret = "rendered"
    /\ \A type \in Types :
          /\ remote[currentUid][type] = << >>
          /\ cache[type] = << >>

\* ---- the profile builder's contract, stated on the records themselves
\* how many entries of a list of records carry title t, how many entries of
\* a list of titles are t
Titled(list, t) == Cardinality({k \in 1..Len(list) : list[k].title = t})
Named(list, t) == Cardinality({k \in 1..Len(list) : list[k] = t})

\* the records of items with title t, by what the user did with them
Loved(t) == {k \in 1..Len(items) : items[k].title = t /\ items[k].watched
                /\ items[k].rating # NULL /\ items[k].rating >= 4}
Liked(t) == {k \in 1..Len(items) : items[k].title = t /\ items[k].watched
                /\ items[k].rating = 3}
WatchedUnrated(t) == {k \in 1..Len(items) : items[k].title = t /\ items[k].watched
                         /\ items[k].rating = NULL}
Watchlist(t) == {k \in 1..Len(items) : items[k].title = t /\ ~items[k].watched}
RatedLow == {k \in 1..Len(items) : items[k].watched /\ items[k].rating \in {1, 2}}

\* the elements of a sequence
Range(seq) == {seq[k] : k \in 1..Len(seq)}

\* the titles a list of entries (records or titles) names
TitlesIn(list) == {list[k].title : k \in 1..Len(list)}

DistinctTitles(list) ==
    \A j, k \in 1..Len(list) : list[j].title = list[k].title => j = k

\* watched record k carries genre g
Carries(k, g) ==
    /\ items[k].watched
    /\ "genres" \in DOMAIN items[k]
    /\ g \in Range(items[k].genres)

\* the genres some watched record carries
Scored == {g \in Range(Many) \cup {"Comedy"} : \E k \in 1..Len(items) : Carries(k, g)}

\* the sum of the ratings (3 for none) of the first n records that are
\* watched and carry g
RECURSIVE ScoreUpTo(_, _)
ScoreUpTo(n, g) ==
    IF n = 0 THEN 0
    ELSE ScoreUpTo(n - 1, g)
         + (IF Carries(n, g)
            THEN (IF items[n].rating = NULL THEN 3 ELSE items[n].rating)
            ELSE 0)
Score(g) == ScoreUpTo(Len(items), g)

\* where g is first seen among the watched records: record, then position
FirstSeen(g) ==
    LET k == CHOOSE k \in 1..Len(items) :
                Carries(k, g) /\ \A j \in 1..(k - 1) : ~Carries(j, g) IN
    LET q == CHOOSE q \in 1..Len(items[k].genres) :
                items[k].genres[q] = g /\ \A j \in 1..(q - 1) : items[k].genres[j] # g IN
       <<k, q>>

\* g is ranked ahead of h
Ahead(g, h) ==
    \/ Score(g) > Score(h)
    \/ /\ Score(g) = Score(h)
       /\ \/ FirstSeen(g)[1] < FirstSeen(h)[1]
          \/ FirstSeen(g)[1] = FirstSeen(h)[1] /\ FirstSeen(g)[2] < FirstSeen(h)[2]

\* C16: in the profile built from items, for every title, loved holds one
\* entry per record that is watched and rated 4 or more, liked one per record
\* that is watched and rated 3, watchedUnrated one per record that is watched
\* and has no rating, watchlist one per record that is not watched; watched
\* records rated 1 or 2 are in none of the first three, no record is in two
\* lists, and an unwatched record is never in loved or liked.
C16_ListMembership ==
    profile.built =>
       /\ \A t \in TitlesIn(items) \cup TitlesIn(profile.loved)
                \cup TitlesIn(profile.liked) \cup Range(profile.watchedUnrated)
                \cup Range(profile.watchlist) :
             /\ Titled(profile.loved, t) = Cardinality(Loved(t))
             /\ Titled(profile.liked, t) = Cardinality(Liked(t))
             /\ Named(profile.watchedUnrated, t) = Cardinality(WatchedUnrated(t))
             /\ Named(profile.watchlist, t) = Cardinality(Watchlist(t))
       /\ Len(profile.loved) + Len(profile.liked) + Len(profile.watchedUnrated)
             + Len(profile.watchlist) + Cardinality(RatedLow)
            = Len(items)
       /\ DistinctTitles(items) =>
             /\ TitlesIn(profile.loved) \cap TitlesIn(profile.liked) = {}
             /\ (TitlesIn(profile.loved) \cup TitlesIn(profile.liked))
                   \cap (Range(profile.watchedUnrated) \cup Range(profile.watchlist)) = {}
             /\ Range(profile.watchedUnrated) \cap Range(profile.watchlist) = {}

\* a profile built from a watched record rated 2 and an unwatched record
\* that carries a rating of 4: the first is in no list, the second only in
\* the watchlist
C16_Witness ==
    /\ profile.built
    /\ Len(items) = 2
    /\ items[1].watched /\ items[1].rating = 2
    /\ ~items[2].watched /\ items[2].rating = 4
    /\ profile.loved = << >> /\ profile.liked = << >>
    /\ profile.watchedUnrated = << >>
    /\ profile.watchlist = << items[2].title >>

\* C17: topGenres lists genres carried by watched records, by descending
\* score (the sum of the ratings of the watched records carrying the genre,
\* 3 for a record without rating; unwatched records add nothing), genres of
\* equal score in first-seen order; it holds the 8 genres ranked highest, or
\* all of them when there are fewer; Drama 5, Drama 3, Comedy 4 gives
\* [Drama, Comedy].
C17_GenreRanking ==
    profile.built =>
       LET T == profile.topGenres IN
          /\ Range(T) \subseteq Scored
          /\ \A k, l \in 1..Len(T) : k < l => Ahead(T[k], T[l])
          /\ Len(T) = IF Cardinality(Scored) < TopGenresMax
                      THEN Cardinality(Scored) ELSE TopGenresMax
          /\ \A g \in Scored \ Range(T) : \A k \in 1..Len(T) : Ahead(T[k], g)
          /\ items = ExampleItems => T = <<"Drama", "Comedy">>

\* nine genres are scored and eight are listed; Drama, the last one seen,
\* is listed first because a second record adds to its score
C17_Witness ==
    /\ profile.built
    /\ Cardinality(Scored) = 9
    /\ Len(profile.topGenres) = TopGenresMax
    /\ profile.topGenres[1] = "Drama"
    /\ FirstSeen("Drama") = <<1, 9>>
    /\ "Romance" \notin Range(profile.topGenres)

\* the same loved and liked entries, in whatever order
SameMembership(p, q) ==
    /\ Range(p.loved) = Range(q.loved)
    /\ Range(p.liked) = Range(q.liked)

\* C18 (as claimed): building from the same records in another order gives
\* the same topGenres ranking and the same loved and liked membership.
C18_OrderIndependent ==
    [][\A k \in 1..MaxItems, n \in TasteNotes :
          BuildReordered(k, n)
             => /\ profile'.topGenres = profile.topGenres
                /\ SameMembership(profile', profile)]_vars

\* no two scored genres have the same score
NoTies == \A g, h \in Scored : Score(g) = Score(h) => g = h

\* C18 (amended): building from the same records in another order gives the
\* same loved and liked membership, and the same topGenres ranking when no
\* two scored genres have equal score; building again from the same records
\* and notes gives an equal profile and leaves the records as they are.
C18_OrderIndependentUpToTies ==
    [][/\ \A k \in 1..MaxItems, n \in TasteNotes :
            BuildReordered(k, n)
               => /\ SameMembership(profile', profile)
                  /\ NoTies => profile'.topGenres = profile.topGenres
       /\ \A n \in TasteNotes :
            (BuildProfile(n) /\ profile.built /\ profile.personalNotes = trim(n))
               => profile' = profile /\ items' = items]_vars

\* a profile of two different watched records whose genres have different
\* scores: Drama, carried by both, is ranked ahead of the genre seen first
C18_Witness ==
    /\ profile.built
    /\ Len(items) = 2 /\ items[1] # items[2]
    /\ items[1].watched /\ items[2].watched
    /\ NoTies
    /\ "Comedy" \in Scored
    /\ FirstSeen("Comedy") = <<1, 1>>
    /\ profile.topGenres = <<"Drama", "Comedy">>
    /\ Len(profile.loved) = 1 /\ Len(profile.liked) = 1

\* ---- the reply text, read without the function's code
\* the positions of the first "{" and of the last "}" of the reply
FirstOpen == CHOOSE o \in 1..Len(raw) :
                raw[o] = "{" /\ \A q \in 1..(o - 1) : raw[q] # "{"
LastClose == CHOOSE c \in 1..Len(raw) :
                raw[c] = "}" /\ \A q \in (c + 1)..Len(raw) : raw[q] # "}"

\* the reply holds a "{" with a "}" somewhere behind it
HasSpan ==
    \E o, c \in 1..Len(raw) : o < c /\ raw[o] = "{" /\ raw[c] = "}"

\* the stretch from the first "{" through the last "}"
Span == SubSeq(raw, FirstOpen, LastClose)

\* the stretch is the JSON text of an object
SpanParses == \E p \in Payloads : stringify(p) = Span

\* the object the stretch is the JSON text of
Payload == CHOOSE p \in Payloads : stringify(p) = Span

\* failures a caller may read as MalformedResponse: the format failure and
\* the failure the catch block reports for everything it did not expect
Malformed == {FormatError, RequestFailed}

OwnedValues ==
    [u \in Uids |-> [t \in Types |->
        [i \in 1..Len(remote[u][t]) |->
            [f \in {"watched", "rating", "notes", "watchedAt"} |->
                remote[u][t][i].data[f]]]]]

\* C11: every write a backfill run issues is an update whose fields are
\* among tmdbRating, genres, genreIds and releaseDate, whatever the catalog
\* answered; and watched, rating, notes and watchedAt of a stored record
\* change only when a markWatched, updateRating or unmarkWatched of the user
\* is accepted, however these interleave with the run.
C11_BackfillKeepsUserFields ==
    [][/\ \A m \in CatalogData :
            (DetailsFetched(m) /\ inflight' # inflight)
               => \E w \in {inflight'[Len(inflight')]} :
                     /\ inflight' = Append(inflight, w)
                     /\ w.op = "updateDoc" /\ w.caller = "patchItem"
                     /\ w.key = String(Head(backfill.queue))
                     /\ DOMAIN w.data \subseteq DetailFields
       /\ OwnedValues' # OwnedValues
            => /\ WriteAccepted
               /\ Head(inflight).caller
                     \in {"markWatched", "updateRating", "unmarkWatched"}]_vars

\* the run is over and has patched a record the user marked watched: the
\* record holds the catalog's score and genres and the user's rating and
\* notes
C11_Witness ==
    /\ backfill.pc = "done"
    /\ \E i \in 1..Len(remote["A"]["tv"]) :
          LET d == remote["A"]["tv"][i].data IN
             /\ d.tmdbRating = 75 /\ d.genres = <<"Drama">> /\ d.genreIds = <<18>>
             /\ d.watched /\ d.rating = 4 /\ d.notes = "good"
             /\ d.watchedAt \in Clock

\* ---- the advisor's request, read from what the catalog holds
\* the resolution stage of the request ended and its picks were stored
ResolutionEnded == request.pc = "done" /\ request.final = "results"
\* the generated items of the request, in the envelope's order
Generated == [k \in 1..Len(request.searches) |-> request.searches[k].pick]
\* the search of pick i returned, and what the catalog holds for its title
Succeeded(i) == request.searches[i].outcome = "returned"
Failed(i) == request.searches[i].outcome = "threw"
OwnResults(i) ==
    CatalogResults(request.searches[i].type, Generated[i].title)

\* C22: resolution independence. Once the resolution stage has ended, each
\* pick whose search succeeded with a non-empty result has a non-null
\* resolved item and each pick whose search threw has a null one; and the
\* stage does end with the picks stored, never with the error state, as
\* soon as no search is pending.
C22_ResolutionIndependent ==
    /\ request.pc = "resolving" =>
          \E i \in 1..Len(request.searches) : request.searches[i].outcome = Pending
    /\ request.searches # << >> => request.final # "error"
    /\ ResolutionEnded =>
          \A i \in 1..Len(request.searches) :
             /\ Succeeded(i) /\ OwnResults(i) # << >> =>
                   app.aiResults[i].tmdbItem # NoItem
             /\ Failed(i) => app.aiResults[i].tmdbItem = NoItem

\* a request of two picks ended: the first search threw, the second found
\* an item
C22_Witness ==
    /\ ResolutionEnded /\ Len(request.searches) = 2
    /\ Failed(1) /\ app.aiResults[1].tmdbItem = NoItem
    /\ Succeeded(2) /\ app.aiResults[2].tmdbItem # NoItem

\* C23: for every envelope of n items (n = 0 and n > 8 included) the
\* resolved list has exactly n picks and its i-th pick carries the title and
\* the reason of the i-th generated item, in whatever order the searches
\* completed.
C23_OrderPreserved ==
    ResolutionEnded =>
       /\ Len(app.aiResults) = Len(Generated)
       /\ \A i \in 1..Len(Generated) :
             /\ app.aiResults[i].title = Generated[i].title
             /\ app.aiResults[i].reason = Generated[i].reason

\* an envelope of nine items was resolved, some searches failed and the
\* picks differ
C23_Witness ==
    /\ ResolutionEnded /\ Len(app.aiResults) = 9
    /\ Failed(1) /\ Succeeded(2) /\ Failed(9)
    /\ app.aiResults[1].title = "Alien" /\ app.aiResults[2].title = "Fargo"

\* C24: the resolved item of a pick is the first result of the search made
\* for that pick's own title, and it is null exactly when that search
\* returned nothing or failed.
C24_FirstOwnResult ==
    ResolutionEnded =>
       \A i \in 1..Len(Generated) :
          /\ request.searches[i].title = Generated[i].title
          /\ app.aiResults[i].tmdbItem =
                IF Succeeded(i) /\ OwnResults(i) # << >>
                THEN normalizeResult(request.searches[i].type, OwnResults(i)[1])
                ELSE NoItem

\* three picks were resolved to the first result of their own searches: two
\* different items, and nothing for the title the catalog does not know
C24_Witness ==
    /\ ResolutionEnded /\ Len(app.aiResults) = 9
    /\ Succeeded(1) /\ app.aiResults[1].tmdbItem.tmdbId = 1
    /\ Succeeded(2) /\ app.aiResults[2].tmdbItem.tmdbId = 2
    /\ Succeeded(3) /\ app.aiResults[3].tmdbItem = NoItem
    /\ Failed(4) /\ app.aiResults[4].tmdbItem = NoItem

\* C21: when the dispatch, the extraction or the classification fails, the
\* caller issues no catalog search and stores no picks, the results section
\* shows the error state and the submit control is enabled again.
C21_FailureShowsError ==
    [][request.pc = "asking" /\ request'.final = "error" =>
          /\ request'.searches = << >>
          /\ app'.aiResults = app.aiResults
          /\ app'.results = Shown("error", << >>)
          /\ ~ app'.disabled]_vars

\* C25: a resolved pick is shown as on the list exactly when the cache
\* holds a record with the resolved item's id in the category for which the
\* request was made; the view that is visible is rendered from the current
\* cache.
C25_MembershipOfRequestCategory ==
    app.filter = "explore" /\ app.results.kind = "picks" =>
       \A k \in 1..Len(app.results.cards) :
          app.results.cards[k].onList
             <=> onList(cache, request.sent.mediaType, app.results.cards[k].tmdbId)

\* C26: the category is captured once: the list the profile is built from,
\* the category sent to the generator and the category of every catalog
\* search of the request are the same.
C26_CategoryCapturedOnce ==
    /\ request.sent.profileOf = request.sent.mediaType
    /\ \A i \in 1..Len(request.searches) :
          request.searches[i].type = request.sent.mediaType

\* ---- the search modal
\* the searches whose response has arrived
Arrived == (1..search.dispatched) \ {f.n : f \in search.flying}

\* C27: stale search responses are discarded: what #search-results displays
\* is the response of the most recently dispatched query among those whose
\* response has arrived; the response of an earlier query that completes
\* later is never displayed.
C27_LatestResponseShown ==
    search.shown.kind # "blank" =>
       /\ search.shown.of \in Arrived
       /\ \A n \in Arrived : n <= search.shown.of

\* C28: debounce. An input event cancels the pending dispatch, so that at
\* most one dispatch is pending; a query is dispatched only from the timeout
\* of the last input event, and it is the query that input left; an input
\* that leaves the query empty dispatches nothing and clears the results.
C28_Debounce ==
    [][/\ Cardinality(search'.timers) <= 1
       /\ search'.typed = search.typed + 1 =>
             /\ search.timers \cap search'.timers = {}
             /\ search'.dispatched = search.dispatched
             /\ trim(search'.input) = "" =>
                   /\ search'.timers = {}
                   /\ search'.flying = search.flying
                   /\ search'.shown.kind = "blank"
       /\ search'.dispatched = search.dispatched + 1 =>
             /\ search'.typed = search.typed
             /\ search.timers = {[id |-> search.typed, q |-> trim(search.input)]}
             /\ \E f \in search'.flying \ search.flying :
                   f.query = trim(search.input)]_vars

\* after three input events one query had been dispatched and answered;
\* the last input left the query empty: no timeout is pending and nothing
\* is displayed
C28_Witness ==
    /\ search.typed = 3 /\ search.dispatched = 1
    /\ search.input = "  " /\ search.timers = {}
    /\ search.shown.kind = "blank" /\ search.flying = {}

\* ---- the backfill run
\* the run is fetching the detail of record id of the list type
Fetching(type, id) ==
    /\ backfill.pc = "fetching"
    /\ backfill.type = type
    /\ Head(backfill.queue) = id

\* C29: backfill coverage. After the bind every stored record that lacks a
\* catalog score, genres, a defined release date or genre codes (the movie
\* record 1 and the tv record 1 of StoredCollections) is eventually fetched
\* by its id, also when the first snapshot arrives after the run started;
\* a record that lacks none of them (the movie record 2) is never fetched.
C29_BackfillCoverage ==
    /\ <>Fetching("movie", 1)
    /\ <>Fetching("tv", 1)
    /\ [](~ Fetching("movie", 2))

\* the fields of DetailFields the stored record already has
PresentFields(i) ==
    {f \in DetailFields \cap DOMAIN i :
        /\ f = "tmdbRating" => i.tmdbRating \notin {NULL, UNDEF}
        /\ f = "genres" => i.genres # << >>
        /\ f = "genreIds" => i.genreIds # << >>
        /\ f = "releaseDate" => i.releaseDate # UNDEF}

\* C30: backfill applies only the missing fields: a patch the run issues
\* contains no descriptive field the record already has, whatever the detail
\* returned, and so no patch is issued when the detail supplies none of the
\* fields the record lacks.
C30_PatchOnlyMissing ==
    [][backfill.pc = "fetching" /\ backfill'.pc = "patching" =>
          LET w == inflight'[Len(inflight')] IN
          LET i == getItem(cache, w.type, Head(backfill.queue)) IN
             /\ w.caller = "patchItem"
             /\ DOMAIN w.data # {}
             /\ DOMAIN w.data \cap PresentFields(i) = {}]_vars

\* the ids of the cached records of a list that lack a descriptive field, in
\* the list's order
LackingIds(type) ==
    LET lacking == SelectSeq(cache[type], LAMBDA i : PresentFields(i) # DetailFields) IN
       [k \in 1..Len(lacking) |-> lacking[k].tmdbId]
\* the run goes on with the records in rest of the list type; with none left
\* it selects the records of the tv list, and it ends after the tv list
GoesOnWith(type, rest) ==
    IF rest # << >>
    THEN backfill'.pc = "fetching" /\ backfill'.type = type /\ backfill'.queue = rest
    ELSE IF type = "movie" /\ LackingIds("tv") # << >>
    THEN /\ backfill'.pc = "fetching" /\ backfill'.type = "tv"
         /\ backfill'.queue = LackingIds("tv")
    ELSE backfill'.pc = "done"

\* C31: when the detail fetch or the patch of one record fails, the run goes
\* on with every other selected record of both lists; no selected record is
\* fetched twice; and the run has no state but waiting, fetching, patching
\* and done: a failure is reported to nobody.
C31_FailuresSwallowed ==
    [][/\ backfill'.failed # backfill.failed =>
             GoesOnWith(backfill.type, Tail(backfill.queue))
       /\ \A i, j \in 1..Len(backfill'.fetched) :
             backfill'.fetched[i] = backfill'.fetched[j] => i = j
       /\ backfill'.pc \in {"scheduled", "fetching", "patching", "done"}]_vars

\* the run is over: the fetch or the patch of the movie record failed, and
\* the tv record was fetched after it and did not fail
C31_Witness ==
    /\ backfill.pc = "done"
    /\ backfill.fetched = << <<"movie", 1>>, <<"tv", 1>> >>
    /\ backfill.failed = { <<"movie", 1>> }

\* C32: backfill runs once per session: no two runs start in one session,
\* a run starts in the session that scheduled it, and the only run that may
\* start outside of it starts signed out and selects no record.
C32_OncePerSession ==
    /\ \A r, q \in backfill.runs : r.ran = q.ran /\ r.ran # 0 => r = q
    /\ \A r \in backfill.runs :
          \/ r.ran = r.scheduled
          \/ r.ran = 0 /\ \A type \in Types : r.selected[type] = << >>

\* C33: a callable function has called upstream only for an authenticated
\* request whose path is a string starting with '/' (catalog proxy) or whose
\* prompt is a non-blank string (advisor); every rejected request has ended
\* in an error without an upstream call; an error raised by a check is what
\* the caller gets, and any other failure reaches the caller as a generic
\* internal error.
WellFormed(fn, v) ==
    /\ v.kind = "string"
    /\ IF fn = "tmdb" THEN v.text # << >> /\ v.text[1] = "/"
                       ELSE \E k \in 1..Len(v.text) : v.text[k] # " "

GenericErrors ==
    {HttpsError("internal", "Unexpected error."), HttpsError("internal", RequestFailed),
     Internal}

C33_ChecksBeforeUpstream ==
    LET accepted == server.auth \in Uids /\ WellFormed(server.fn, server.data) IN
       /\ server.called => accepted /\ server.key
       /\ server.pc = "done" /\ ~accepted =>
             /\ ~server.called
             /\ server.result.kind = "error"
             /\ server.result = server.raised
       /\ server.pc = "done" /\ server.raised # Nothing => server.result = server.raised
       /\ server.pc = "done" /\ server.failed => server.result \in GenericErrors

\* an authenticated advisor request whose prompt is blank-padded passed the
\* checks, and its upstream call failed
C33_Witness ==
    /\ server.pc = "done"
    /\ server.called
    /\ server.failed
    /\ server.fn = "askAI"
    /\ server.data = Str(<<" ", "h", " ">>)

\* an authenticated catalog request whose path does not begin with '/' was
\* rejected
C33_WitnessRejected ==
    /\ server.pc = "done"
    /\ server.auth = "A"
    /\ server.fn = "tmdb"
    /\ server.data = Str(<<"s", "/">>)
    /\ server.result = InvalidArgument("tmdb")

\* C34 (as stated): in every normalized record a missing release date gives
\* a null releaseDate, a missing vote average a null score, missing genres
\* empty genre and genre-code lists, missing credits an empty cast and a
\* null director; the cast has at most four names and a search returns at
\* most eight records.
Capped ==
    /\ \A k \in 1..Len(catalog.out) : Len(catalog.out[k].cast) <= 4
    /\ catalog.pc = "search" => Len(catalog.out) <= 8
    /\ Len(catalog.out) <= Len(catalog.read)

C34_NeutralDefaults ==
    /\ Capped
    /\ \A k \in 1..Len(catalog.out) :
          LET m == catalog.read[k]
              o == catalog.out[k]
          IN /\ ~Has(m, dateField(catalog.type)) => o.releaseDate = NULL
             /\ ~Has(m, "vote_average") => o.tmdbRating = NULL
             /\ ~Has(m, "genres") => o.genres = << >> /\ o.genreIds = << >>
             /\ ~Has(m, "credits") => o.cast = << >> /\ o.director = NoName

\* C34 (amended): as stated, except that the genre-code list is empty only
\* when the genre codes are missing too (it is the list of codes the catalog
\* sent otherwise), and that the director of a tv record is null when its
\* creators are missing or none, whatever its credits.
C34_NeutralDefaultsAmended ==
    /\ Capped
    /\ \A k \in 1..Len(catalog.out) :
          LET m == catalog.read[k]
              o == catalog.out[k]
          IN /\ ~Has(m, dateField(catalog.type)) => o.releaseDate = NULL
             /\ ~Has(m, "vote_average") => o.tmdbRating = NULL
             /\ ~Has(m, "genres") =>
                   /\ o.genres = << >>
                   /\ o.genreIds = IF Has(m, "genre_ids") THEN m.genre_ids ELSE << >>
             /\ ~Has(m, "credits") =>
                   /\ o.cast = << >>
                   /\ catalog.type = "movie" => o.director = NoName
             /\ catalog.type = "tv" /\ (~Has(m, "created_by") \/ m.created_by = << >>) =>
                   o.director = NoName

\* a details reply that holds credits with five actors and none of the other
\* optional fields was read
C34_Witness ==
    /\ catalog.pc = "details"
    /\ DOMAIN catalog.read[1] = {"id", "credits"}
    /\ Len(catalog.read[1].credits.cast) = 5
    /\ catalog.out[1].cast = <<"actor", "actor", "actor", "actor">>
    /\ catalog.out[1].releaseDate = NULL

\* C35: every record written into the collection of a category has that
\* category: the write addItem issues, and the document it leaves in the
\* remote collection, carry the type of the collection they go to.
C35_AddedUnderOwnCategory ==
    /\ \A k \in 1..Len(inflight) :
          inflight[k].caller = "addItem" => inflight[k].data.type = inflight[k].type
    /\ \A type \in Types : \A k \in 1..Len(remote["A"][type]) :
          LET d == remote["A"][type][k].data IN
             "type" \in DOMAIN d => d.type = type

\* C36: the stored recommendation results belong to the stored category:
\* every record state.aiResults holds is a record of state.mediaType.
C36_ResultsOfStoredCategory ==
    \A k \in 1..Len(app.aiResults) :
       app.aiResults[k].tmdbItem # NoItem =>
          app.aiResults[k].tmdbItem.type = app.mediaType

\* C37: at most one recommendation request is in flight: while a request
\* awaits the advisor or its searches, the explore view offers no enabled
\* submit control.
C37_SubmitLocked ==
    request.pc \in {"asking", "resolving"} =>
       ~ (app.filter = "explore" /\ ~ app.disabled)

\* C38: the locally cached taste notes belong to the identity that is
\* bound: they are empty when nobody is signed in, and what they hold
\* otherwise is what the profile document of the bound identity holds.
C38_NotesOfBoundIdentity ==
    profileCache # "" =>
       /\ currentUid # NoUid
       /\ remoteNotes[currentUid] = profileCache

\* C39: only addItem creates a record: a document appears in a remote
\* collection only when the write of an addItem is accepted; the write of
\* markWatched, unmarkWatched, updateRating or patchItem for an id that has
\* no remote document creates none.
C39_OnlyAddCreates ==
    [][\A u \in Uids, type \in Types :
          \A k \in 1..Len(remote'[u][type]) :
             ~ HasDoc(remote[u][type], remote'[u][type][k].key) =>
                /\ inflight # << >>
                /\ Head(inflight).caller = "addItem"
                /\ Head(inflight).key = remote'[u][type][k].key]_vars

\* the write of a patch (or a mark, a rating) for an id that has no remote
\* document is in flight, after an addItem had created another record
C39_Witness ==
    /\ inflight # << >>
    /\ Head(inflight).op = "updateDoc"
    /\ ~ HasDoc(remote[Head(inflight).uid][Head(inflight).type], Head(inflight).key)
    /\ \E type \in Types : remote[Head(inflight).uid][type] # << >>

====
